---------------------------- MODULE Spec2Model ----------------------------
(***************************************************************************)
(* Model of the yt-graph-rag ETL core: the Window Chunker                  *)
(* (YoutubeChunkingChain._call), the Segment Transcriber                   *)
(* (WhisperTranscriptionChain._call) and the Graph Loader                  *)
(* (etl_load_to_neo4j).  Each component has its own specification over    *)
(* the shared variable tuple; the variables of the other components stay  *)
(* at their initial value.                                                 *)
(***************************************************************************)
EXTENDS Integers, Sequences, FiniteSets, TLC

VARIABLES
    \* ---- Window Chunker (video_chunking.py) ----
    chunk_length_ms,   \* self.chunk_length_ms
    overlap_ms,        \* self.overlap_ms
    video_id,          \* inputs["_video_id"]
    audio_len,         \* duration in ms of the media the provider serves
    total,             \* total = len(audio)
    ck_pc,             \* position inside _call
    idx,               \* enumerate() counter of the chunk loop
    start_ms,          \* current element of range(0, total, step)
    chunk_paths,       \* chunk_paths list
    exports,           \* chunk.export() calls that completed, in order
    \* ---- Segment Transcriber (transcription.py) ----
    tr_chunk_paths,    \* inputs["chunk_paths"]
    fs_exists,         \* the segment files present on disk
    tr_pc,             \* position inside _call
    tr_idx,            \* 1-based position of the loop in chunk_paths
    transcripts,       \* transcripts list (local to _call)
    parse_calls,       \* self.parser.parse(blob) calls made, in order
    tr_out,            \* out["transcripts"] once _call has returned
    \* ---- Graph Loader (etl_load.py) and the graph store ----
    nodes,             \* graph store: nodes, in creation order
    edges,             \* graph store: relationships, in creation order
    constraints,       \* graph store: labels with an id-uniqueness constraint
    ld_pc,             \* position of etl_load_to_neo4j
    ld_input,          \* obj_validated, the fragment being loaded
    ld_queue,          \* graph.query() statements still to be issued
    ld_rerun,          \* this run repeats the previous run's fragment
    ld_snap,           \* the graph as the previous run of the fragment left it
    loads,             \* number of fragments loaded so far
    \* ---- Graph preparation (generate_embeddings.py) ----
    pg_pc,             \* position of prepare_graph_embeddings_index
    pg_records,        \* records of generate_embeddings still to be embedded
    pg_runs,           \* number of preparation runs started so far
    vector_index,      \* graph store: the entity_emb vector index exists
    pg_recomputed,     \* nodes whose text this run found set and replaced
    \* ---- Text stages (unifiy_transcriptions.py, ortography_correction.py,
    \*      correference_resolution.py, translation.py,
    \*      get_structured_output.py) ----
    st_stage,          \* which chain's _call is running
    st_inputs,         \* the inputs dictionary of the call
    st_meta,           \* the item's metadata.json: present or not, content
    st_pc,             \* position inside _call
    st_idx,            \* 1-based position of the unifier loop
    st_text,           \* the text the call has produced so far
    st_dir,            \* translator: output_dir was set (None otherwise)
    st_language,       \* translator: language, as a sequence of characters
    st_calls,          \* invocations of the wrapped chains, in order
    st_writes,         \* f.write() calls that completed, in order
    st_out,            \* the dictionary _call returned
    (* pipeline driver: load_to_neo4j.py main *)
    dr_pc,             \* "idle", "batch", "load", "done" or "raised"
    dr_urls,           \* urls, the items of the batch
    dr_stage,          \* 1-based position in StageOrder of the running batch
    dr_inputs,         \* the inputs list handed to the running batch
    dr_results,        \* per item: the result of the running batch
    dr_idx,            \* 1-based position of the load loop
    dr_log,            \* every stage invocation and load so far, in order
    (* Source Lister: extract_urls_from_playlist.py *)
    pl_pc,             \* position inside get_urls_from_playlist
    pl_pages,          \* the pages the provider serves for the playlist
    pl_page,           \* 1-based number of the page pageToken stands for
    videos,            \* videos list
    pl_idx,            \* 1-based position of the metadata loop
    pl_outcomes,       \* per video handled so far: how its detail fetch went
    pl_files,          \* json.dump() calls that completed, in order
    pl_result,         \* the list returned (empty until the return)
    (* two Graph Loader runs at the same time: etl_load.py *)
    cc_pc,             \* "idle", "running" or "done"
    cc_inputs,         \* the validated object of each run
    cc_queues,         \* per run: the graph.query() calls still to issue
    (* configuration: common_settings.py *)
    se_pc,             \* "idle", "load", "accepted", "rejected" or "built"
    env_chunk,         \* CHUNK_LENGTH_MS of the environment
    env_overlap        \* OVERLAP_MS of the environment

ck_vars == <<chunk_length_ms, overlap_ms, video_id, audio_len, total, ck_pc,
             idx, start_ms, chunk_paths, exports>>

tr_vars == <<tr_chunk_paths, fs_exists, tr_pc, tr_idx, transcripts,
             parse_calls, tr_out>>

ld_vars == <<nodes, edges, constraints, ld_pc, ld_input, ld_queue, ld_rerun,
             ld_snap, loads>>

pg_vars == <<pg_pc, pg_records, pg_runs, vector_index, pg_recomputed>>

st_vars == <<st_stage, st_inputs, st_meta, st_pc, st_idx, st_text, st_dir,
             st_language, st_calls, st_writes, st_out>>

dr_vars == <<dr_pc, dr_urls, dr_stage, dr_inputs, dr_results, dr_idx, dr_log>>

pl_vars == <<pl_pc, pl_pages, pl_page, videos, pl_idx, pl_outcomes, pl_files,
             pl_result>>

cc_vars == <<cc_pc, cc_inputs, cc_queues>>

se_vars == <<se_pc, env_chunk, env_overlap>>

vars == <<ck_vars, tr_vars, ld_vars, pg_vars, st_vars, dr_vars, pl_vars,
          cc_vars, se_vars>>

(* what the actions of each component leave alone *)
ck_rest == <<tr_vars, ld_vars, pg_vars, st_vars, dr_vars, pl_vars,
            cc_vars, se_vars>>

tr_rest == <<ck_vars, ld_vars, pg_vars, st_vars, dr_vars, pl_vars,
            cc_vars, se_vars>>

ld_rest == <<ck_vars, tr_vars, pg_vars, st_vars, dr_vars, pl_vars,
            cc_vars, se_vars>>

pg_rest == <<ck_vars, tr_vars, st_vars, dr_vars, pl_vars,
            cc_vars, se_vars>>

st_rest == <<ck_vars, tr_vars, ld_vars, pg_vars, dr_vars, pl_vars,
            cc_vars, se_vars>>

se_rest ==
    <<ck_vars, tr_vars, ld_vars, pg_vars, st_vars, dr_vars, pl_vars, cc_vars>>

se_ck_rest ==
    <<tr_vars, ld_vars, pg_vars, st_vars, dr_vars, pl_vars, cc_vars>>

pl_rest == <<ck_vars, tr_vars, ld_vars, pg_vars, st_vars, dr_vars,
            cc_vars, se_vars>>

-----------------------------------------------------------------------------
(* Bounds of the model *)

MaxChunk == 3
MaxTotal == 7
MaxPaths == 3
MaxDocs == 2
MaxEntities == 2
MaxRelations == 2
MaxLoads == 2

(* test_happy_path_simple: chunk_length_ms, overlap_ms, AudioStub.total *)
TestChunkMs == 4000
TestOverlapMs == 1000
TestTotalMs == 10000

VideoIds == {"vid", "BQFmYHFieqU"}

NoValue == "None"

-----------------------------------------------------------------------------
(* Pure helpers *)

Min(a, b) == IF a <= b THEN a ELSE b

(* ceil(a / b) for a >= 0, b > 0 *)
CeilDiv(a, b) == (a + b - 1) \div b

-----------------------------------------------------------------------------
(* Window Chunker *)

(* step = self.chunk_length_ms - self.overlap_ms *)
Step(chunk, overlap) == chunk - overlap

(* Does range(0, stop, step) yield the value cur?  (step # 0) *)
RangeHasNextInclusive(cur, stop, step) ==
    IF step > 0 THEN cur <= stop ELSE cur >= stop

RangeHasNext(cur, stop, step) ==
    IF step > 0 THEN cur < stop ELSE cur > stop

(* end_ms = min(start_ms + self.chunk_length_ms, total) *)
EndMsUnclamped(start, chunk, tot) == start + chunk

EndMs(start, chunk, tot) == Min(start + chunk, tot)

(* fname = f"{_video_id}_chunk_{idx}.mp4" *)
FnameOneBased(vid, i) == <<vid, "_chunk_", i + 1, ".mp4">>

Fname(vid, i) == <<vid, "_chunk_", i, ".mp4">>

(* chunks_dir = self.base_dir / _video_id / "audios" / "chunks" *)
ChunksDir(vid) == <<"base_dir", vid, "audios", "chunks">>

(* outpath = chunks_dir / fname *)
Outpath(vid, i) == [dir |-> ChunksDir(vid), name |-> Fname(vid, i)]

ChunkerConfigs ==
    {[chunk |-> c, overlap |-> o, len |-> t] :
        c \in 1..MaxChunk, o \in 0..MaxChunk, t \in 0..MaxTotal}
    \cup {[chunk |-> TestChunkMs, overlap |-> TestOverlapMs, len |-> t] :
            t \in {TestTotalMs} \cup 0..MaxTotal}

ChunkerStart ==
    /\ \E cfg \in ChunkerConfigs :
          /\ chunk_length_ms = cfg.chunk
          /\ overlap_ms = cfg.overlap
          /\ audio_len = cfg.len
    /\ video_id \in VideoIds
    /\ total = NoValue
    /\ ck_pc = "download"
    /\ idx = 0
    /\ start_ms = 0
    /\ chunk_paths = <<>>
    /\ exports = <<>>

(* lines 74-86: download; any exception is logged and re-raised *)
Download ==
    /\ ck_pc = "download"
    /\ \/ ck_pc' = "convert"
       \/ ck_pc' = "raised"
    /\ UNCHANGED <<chunk_length_ms, overlap_ms, video_id, audio_len, total,
                   idx, start_ms, chunk_paths, exports>>
    /\ UNCHANGED ck_rest

(* lines 89-99: convert to mp4; lines 102-104: total = len(audio) *)
Convert ==
    /\ ck_pc = "convert"
    /\ \/ /\ ck_pc' = "chunking"
          /\ total' = audio_len
       \/ /\ ck_pc' = "raised"
          /\ UNCHANGED total
    /\ UNCHANGED <<chunk_length_ms, overlap_ms, video_id, audio_len,
                   idx, start_ms, chunk_paths, exports>>
    /\ UNCHANGED ck_rest

(* line 108 with step = 0: range() raises ValueError inside the try *)
ChunkRangeError ==
    /\ ck_pc = "chunking"
    /\ Step(chunk_length_ms, overlap_ms) = 0
    /\ ck_pc' = "raised"
    /\ UNCHANGED <<chunk_length_ms, overlap_ms, video_id, audio_len, total,
                   idx, start_ms, chunk_paths, exports>>
    /\ UNCHANGED ck_rest

(* lines 108-115: one iteration of the chunk loop *)
ChunkExport ==
    /\ ck_pc = "chunking"
    /\ Step(chunk_length_ms, overlap_ms) # 0
    /\ RangeHasNext(start_ms, total, Step(chunk_length_ms, overlap_ms))
    /\ LET end_ms  == EndMs(start_ms, chunk_length_ms, total)
           outpath == Outpath(video_id, idx)
       IN  \/ /\ exports' = Append(exports,
                     [path |-> outpath, start_offset |-> start_ms,
                      end_offset |-> end_ms])
              /\ chunk_paths' = Append(chunk_paths, outpath)
              /\ idx' = idx + 1
              /\ start_ms' = start_ms + Step(chunk_length_ms, overlap_ms)
              /\ UNCHANGED ck_pc
           \/ /\ ck_pc' = "raised"
              /\ UNCHANGED <<exports, chunk_paths, idx, start_ms>>
    /\ UNCHANGED <<chunk_length_ms, overlap_ms, video_id, audio_len, total>>
    /\ UNCHANGED ck_rest

(* lines 116-125: the range is exhausted, return chunk_paths *)
ChunkReturn ==
    /\ ck_pc = "chunking"
    /\ Step(chunk_length_ms, overlap_ms) # 0
    /\ ~RangeHasNext(start_ms, total, Step(chunk_length_ms, overlap_ms))
    /\ ck_pc' = "returned"
    /\ UNCHANGED <<chunk_length_ms, overlap_ms, video_id, audio_len, total,
                   idx, start_ms, chunk_paths, exports>>
    /\ UNCHANGED ck_rest

ChunkerNext ==
    \/ Download
    \/ Convert
    \/ ChunkRangeError
    \/ ChunkExport
    \/ ChunkReturn

(* the chunker when another component is the one running *)
ChunkerIdle ==
    /\ chunk_length_ms = TestChunkMs
    /\ overlap_ms = TestOverlapMs
    /\ video_id = "vid"
    /\ audio_len = 0
    /\ total = NoValue
    /\ ck_pc = "idle"
    /\ idx = 0
    /\ start_ms = 0
    /\ chunk_paths = <<>>
    /\ exports = <<>>

-----------------------------------------------------------------------------
(* Segment Transcriber *)

(* Document.page_content values the speech-to-text parser may return *)
PageContents == {"hola", "mundo"}

(* all sequences over S of length 0..n *)
SeqUpTo(S, n) == UNION {[1..k -> S] : k \in 0..n}

(* docs = self.parser.parse(blob): any list of documents *)
DocLists == SeqUpTo(PageContents, MaxDocs)

(* the segment files the transcriber may be handed *)
SegmentPaths == {Outpath("vid", i) : i \in 0..1}

(* raw = p.read_bytes() *)
ReadBytes(path) == <<"bytes", path.name>>

(* Blob(data = raw, path = str(p),
        metadata = {"chunk_filename": Path(path).name}) *)
MakeBlob(path) ==
    [data |-> ReadBytes(path), path |-> path,
     metadata |-> [chunk_filename |-> path.name]]

(* text = " ".join(d.page_content for d in docs) *)
RECURSIVE JoinSpace(_)
JoinSpace(docs) ==
    IF Len(docs) = 0 THEN ""
    ELSE IF Len(docs) = 1 THEN docs[1]
    ELSE docs[1] \o " " \o JoinSpace(Tail(docs))

(* transcripts.append(text) *)
AppendTranscriptUnique(ts, text) ==
    IF \E i \in 1..Len(ts) : ts[i] = text THEN ts ELSE Append(ts, text)

AppendTranscript(ts, text) == Append(ts, text)

(* lines 73-75 and 99-107: a missing chunk raises FileNotFoundError, which
   the except clause logs and re-raises *)
AfterMissingSkip(i) == [pc |-> "loop", idx |-> i + 1]

AfterMissing(i) == [pc |-> "raised", idx |-> i]

TranscriberStart ==
    /\ tr_chunk_paths \in SeqUpTo(SegmentPaths, MaxPaths)
    /\ fs_exists \in SUBSET SegmentPaths
    /\ tr_pc = "loop"
    /\ tr_idx = 1
    /\ transcripts = <<>>
    /\ parse_calls = <<>>
    /\ tr_out = NoValue

TranscriberIdle ==
    /\ tr_chunk_paths = <<>>
    /\ fs_exists = {}
    /\ tr_pc = "idle"
    /\ tr_idx = 1
    /\ transcripts = <<>>
    /\ parse_calls = <<>>
    /\ tr_out = NoValue

(* lines 70-75, 99-107: the next chunk file does not exist *)
TrMissing ==
    /\ tr_pc = "loop"
    /\ tr_idx <= Len(tr_chunk_paths)
    /\ tr_chunk_paths[tr_idx] \notin fs_exists
    /\ tr_pc' = AfterMissing(tr_idx).pc
    /\ tr_idx' = AfterMissing(tr_idx).idx
    /\ UNCHANGED <<tr_chunk_paths, fs_exists, transcripts, parse_calls,
                   tr_out>>
    /\ UNCHANGED tr_rest

(* lines 70-97: the next chunk is read, sent to the parser and its text
   appended; lines 99-107: a parser exception is logged and re-raised *)
TrParse ==
    /\ tr_pc = "loop"
    /\ tr_idx <= Len(tr_chunk_paths)
    /\ tr_chunk_paths[tr_idx] \in fs_exists
    /\ LET blob == MakeBlob(tr_chunk_paths[tr_idx])
       IN  \/ \E docs \in DocLists :
                /\ parse_calls' = Append(parse_calls,
                       [pos |-> tr_idx, blob |-> blob, ok |-> TRUE,
                        docs |-> docs])
                /\ transcripts' = AppendTranscript(transcripts,
                                                   JoinSpace(docs))
                /\ tr_idx' = tr_idx + 1
                /\ UNCHANGED tr_pc
           \/ /\ parse_calls' = Append(parse_calls,
                       [pos |-> tr_idx, blob |-> blob, ok |-> FALSE,
                        docs |-> <<>>])
              /\ tr_pc' = "raised"
              /\ UNCHANGED <<transcripts, tr_idx>>
    /\ UNCHANGED <<tr_chunk_paths, fs_exists, tr_out>>
    /\ UNCHANGED tr_rest

(* lines 109-118: the loop is over, return the transcripts *)
TrReturn ==
    /\ tr_pc = "loop"
    /\ tr_idx > Len(tr_chunk_paths)
    /\ tr_pc' = "returned"
    /\ tr_out' = transcripts
    /\ UNCHANGED <<tr_chunk_paths, fs_exists, tr_idx, transcripts,
                   parse_calls>>
    /\ UNCHANGED tr_rest

TranscriberNext ==
    \/ TrMissing
    \/ TrParse
    \/ TrReturn

-----------------------------------------------------------------------------
(* Graph store: the Cypher statements the loader issues *)

Null == "null"

(* SET n.k = v for every k of new; the other properties are left alone *)
SetProps(old, new) ==
    [k \in (DOMAIN old) \cup (DOMAIN new) |->
        IF k \in DOMAIN new THEN new[k] ELSE old[k]]

(* MATCH (n {id: $id}): every node carrying that id, whatever its labels *)
MatchById(ns, id) ==
    {i \in 1..Len(ns) : "id" \in DOMAIN ns[i].props /\ ns[i].props.id = id}

(* MATCH (n:Label {id: $id}) *)
MatchByLabelAndId(ns, label, id) ==
    {i \in MatchById(ns, id) : label \in ns[i].labels}

(* CREATE CONSTRAINT IF NOT EXISTS FOR (n:{node}) REQUIRE n.id IS UNIQUE *)
CreateConstraintIfNotExists(cs, label) == cs \cup {label}

(* CREATE (n:Label {id: $id}) SET n += props  (what MERGE is not) *)
CreateNode(ns, label, id, props) ==
    Append(ns, [labels |-> {label}, props |-> SetProps([id |-> id], props)])

(* MERGE (n:Label {id: $id}) SET n.k = v, ... *)
MergeNode(ns, label, id, props) ==
    IF MatchByLabelAndId(ns, label, id) = {}
    THEN Append(ns, [labels |-> {label},
                     props |-> SetProps([id |-> id], props)])
    ELSE [i \in 1..Len(ns) |->
            IF i \in MatchByLabelAndId(ns, label, id)
            THEN [ns[i] EXCEPT !.props = SetProps(@, props)]
            ELSE ns[i]]

(* the rows of MATCH (origen ..) MATCH (destino ..), in a fixed order *)
PairLess(p, q) == p[1] < q[1] \/ (p[1] = q[1] /\ p[2] < q[2])

RECURSIVE PairsToSeq(_)
PairsToSeq(S) ==
    IF S = {} THEN <<>>
    ELSE LET m == CHOOSE x \in S : \A y \in S \ {x} : PairLess(x, y)
         IN  <<m>> \o PairsToSeq(S \ {m})

RelProps(p) ==
    [descripcion_relacion |-> p.descripcion_relacion,
     fuerza_relacion |-> p.fuerza_relacion,
     id |-> p.id_relacion]

(* the relation statement applied to the already matched endpoint rows:
   MERGE (origen)-[r:RELACION]->(destino) SET r.descripcion_relacion = ..,
   r.fuerza_relacion = .., r.id = .. *)
MergeEdges(es, rows, p) ==
    LET bound  == {k \in 1..Len(es) :
                     es[k].type = "RELACION"
                     /\ <<es[k].src, es[k].dst>> \in rows}
        have   == {<<es[k].src, es[k].dst>> : k \in bound}
        fresh  == PairsToSeq(rows \ have)
        setOld == [k \in 1..Len(es) |->
                     IF k \in bound
                     THEN [es[k] EXCEPT !.props = SetProps(@, RelProps(p))]
                     ELSE es[k]]
    IN  setOld \o [k \in 1..Len(fresh) |->
                     [src |-> fresh[k][1], dst |-> fresh[k][2],
                      type |-> "RELACION", props |-> RelProps(p)]]

(* a relation statement that MERGEs its endpoints instead of MATCHing them *)
MergeRelationMergingEndpoints(ns, es, p) ==
    LET n1 == IF MatchById(ns, p.id_origen) = {}
              THEN Append(ns, [labels |-> {}, props |-> [id |-> p.id_origen]])
              ELSE ns
        n2 == IF MatchById(n1, p.id_destino) = {}
              THEN Append(n1, [labels |-> {}, props |-> [id |-> p.id_destino]])
              ELSE n1
    IN  [nodes |-> n2,
         edges |-> MergeEdges(es, MatchById(n2, p.id_origen)
                                    \X MatchById(n2, p.id_destino), p)]

(* etl_load.py lines 147-163:
   MATCH (origen {id: $id_origen}) MATCH (destino {id: $id_destino})
   MERGE (origen)-[r:RELACION]->(destino) SET r.. *)
MergeRelation(ns, es, p) ==
    [nodes |-> ns,
     edges |-> MergeEdges(es, MatchById(ns, p.id_origen)
                                \X MatchById(ns, p.id_destino), p)]

-----------------------------------------------------------------------------
(* Graph Loader *)

(* pydantic_models.py: the five entity classes, in Entidades field order *)
Variants == <<"Persona", "Empresa", "CentroEducativo", "Movimiento",
              "Producto">>

(* Entidades: the list field holding each entity class *)
ListField(v) ==
    CASE v = "Persona"         -> "personas"
      [] v = "Empresa"         -> "empresas"
      [] v = "CentroEducativo" -> "centros_educativos"
      [] v = "Movimiento"      -> "movimientos"
      [] v = "Producto"        -> "productos"

(* the class-specific attribute of each entity class *)
AttrName(v) ==
    CASE v = "Persona"         -> "profesion"
      [] v = "Empresa"         -> "industria"
      [] v = "CentroEducativo" -> "localizacion"
      [] v = "Movimiento"      -> "categoria"
      [] v = "Producto"        -> "subtipo"

(* ENTITIES = [get_args(tipo)[0].__name__ for tipo in ...__annotations__] *)
ENTITIES == Variants

(* the label each MERGE statement of the loader stores the class under *)
StoreLabel(v) ==
    CASE v = "Persona"         -> "Persona"
      [] v = "Empresa"         -> "Empresa"
      [] v = "CentroEducativo" -> "centroeducativo"
      [] v = "Movimiento"      -> "movimiento"
      [] v = "Producto"        -> "producto"

(* an entity object of class v *)
Entity(v, id, nombre, descripcion, attr) ==
    [k \in {"id", "tipo", "nombre", "descripcion", AttrName(v)} |->
        CASE k = "id" -> id
          [] k = "tipo" -> v
          [] k = "nombre" -> nombre
          [] k = "descripcion" -> descripcion
          [] OTHER -> attr]

(* the entity objects fragments are built from: Persona "a" in two versions
   (same id, other attribute values), an Empresa carrying the same id "a"
   with industria = None, and one entity of each remaining class under "b" *)
EntityPool ==
    {Entity("Persona", "a", "n1", "d1", "x1"),
     Entity("Persona", "a", "n2", "d2", "x2"),
     Entity("Empresa", "a", "n2", "d2", Null),
     Entity("CentroEducativo", "b", "n1", "d1", "x1"),
     Entity("Movimiento", "b", "n1", "d1", Null),
     Entity("Producto", "b", "n1", "d1", "material")}

(* Relacion objects: entidad_origen / entidad_destino are entity objects of
   which the loader reads the id only *)
Relation(id, o, d, desc, fuerza) ==
    [id |-> id, entidad_origen |-> [id |-> o], entidad_destino |-> [id |-> d],
     descripcion_relacion |-> desc, fuerza_relacion |-> fuerza]

RelationPool ==
    {Relation("r1", "a", "b", "d1", 1), Relation("r2", "a", "b", "d2", 2),
     Relation("r1", "b", "a", "d1", 1), Relation("r2", "c", "b", "d2", 2)}

(* Entidades built from a list of entity objects *)
Entidades(es) ==
    [f \in {ListField(Variants[i]) : i \in 1..Len(Variants)} |->
        LET OfField(e) == ListField(e.tipo) = f IN SelectSeq(es, OfField)]

(* OutputSchema objects that pass model_validate *)
Fragments ==
    {[entidades |-> Entidades(es), relaciones |-> [relaciones |-> rs]] :
        es \in SeqUpTo(EntityPool, MaxEntities),
        rs \in SeqUpTo(RelationPool, MaxRelations)}

(* lines 52-53: for entity in ENTITIES: _set_uniqueness_constraints(..) *)
RECURSIVE SetUniquenessConstraints(_, _)
SetUniquenessConstraints(cs, labels) ==
    IF labels = <<>> THEN cs
    ELSE SetUniquenessConstraints(
             CreateConstraintIfNotExists(cs, Head(labels)), Tail(labels))

ConstraintStatements == <<[kind |-> "constraints", labels |-> ENTITIES]>>

(* lines 59-144: one MERGE statement per entity of one list *)
NodeStatements(obj, v) ==
    LET list == obj.entidades[ListField(v)]
    IN  [i \in 1..Len(list) |->
            [kind |-> "node", label |-> StoreLabel(v),
             params |-> [k \in {"id", "tipo", "nombre", "descripcion",
                                AttrName(v)} |-> list[i][k]]]]

(* lines 146-163: one statement per relation *)
RelationStatements(obj) ==
    LET list == obj.relaciones.relaciones
    IN  [i \in 1..Len(list) |->
            [kind |-> "rel",
             params |-> [id_origen |-> list[i].entidad_origen.id,
                         id_destino |-> list[i].entidad_destino.id,
                         descripcion_relacion |-> list[i].descripcion_relacion,
                         fuerza_relacion |-> list[i].fuerza_relacion,
                         id_relacion |-> list[i].id]]]

(* the graph.query() calls of etl_load_to_neo4j, in program order *)
Statements(obj) ==
    ConstraintStatements
    \o NodeStatements(obj, "Persona")
    \o NodeStatements(obj, "Empresa")
    \o NodeStatements(obj, "CentroEducativo")
    \o NodeStatements(obj, "Movimiento")
    \o NodeStatements(obj, "Producto")
    \o RelationStatements(obj)

(* lines 23-25 and 27-33: graph is None, so the graph.query of the first
   _set_uniqueness_constraints raises before any statement reaches the
   store *)
QueryWithoutConnectionLazy(g, labels) ==
    [raised |-> FALSE,
     graph |-> [g EXCEPT !.constraints = SetUniquenessConstraints(@, labels)]]

QueryWithoutConnection(g, labels) == [raised |-> TRUE, graph |-> g]

LoaderStart ==
    /\ nodes = <<>>
    /\ edges = <<>>
    /\ constraints = {}
    /\ ld_pc = "idle"
    /\ ld_input = NoValue
    /\ ld_queue = <<>>
    /\ ld_rerun = FALSE
    /\ ld_snap = NoValue
    /\ loads = 0

LoaderIdle == LoaderStart

(* lines 36-48: connect, parse and validate the fragment, compute ENTITIES *)
LoadBegin ==
    /\ ld_pc = "idle"
    /\ loads < MaxLoads
    /\ \E obj \in Fragments :
          /\ ld_input' = obj
          /\ ld_queue' = Statements(obj)
    /\ ld_pc' = "loading"
    /\ ld_rerun' = FALSE
    /\ ld_snap' = NoValue
    /\ loads' = loads + 1
    /\ UNCHANGED <<nodes, edges, constraints>>
    /\ UNCHANGED ld_rest

(* lines 10-25 and 53: connect_to_neo4j() swallowed the connection error and
   returned None, so whatever the fragment, the first graph.query raises
   AttributeError and nothing of the fragment is kept *)
LoadConnectFail ==
    /\ ld_pc = "idle"
    /\ loads < MaxLoads
    /\ ld_input' = NoValue
    /\ ld_queue' = <<>>
    /\ LET r == QueryWithoutConnection(
                    [nodes |-> nodes, edges |-> edges,
                     constraints |-> constraints], ENTITIES)
       IN  /\ ld_pc' = IF r.raised THEN "raised" ELSE "done"
           /\ nodes' = r.graph.nodes
           /\ edges' = r.graph.edges
           /\ constraints' = r.graph.constraints
    /\ ld_rerun' = FALSE
    /\ ld_snap' = NoValue
    /\ loads' = loads + 1
    /\ UNCHANGED ld_rest

(* lines 50-53: the loop that sets the constraint of every entry of ENTITIES *)
SetConstraints ==
    /\ ld_pc = "loading"
    /\ ld_queue # <<>>
    /\ Head(ld_queue).kind = "constraints"
    /\ constraints' = SetUniquenessConstraints(constraints,
                                               Head(ld_queue).labels)
    /\ ld_queue' = Tail(ld_queue)
    /\ UNCHANGED <<nodes, edges, ld_pc, ld_input, ld_rerun, ld_snap, loads>>
    /\ UNCHANGED ld_rest

(* lines 59-144: the MERGE .. SET of one entity *)
UpsertEntity ==
    /\ ld_pc = "loading"
    /\ ld_queue # <<>>
    /\ Head(ld_queue).kind = "node"
    /\ LET st == Head(ld_queue)
       IN  nodes' = MergeNode(nodes, st.label, st.params.id,
                              [k \in (DOMAIN st.params) \ {"id"} |->
                                  st.params[k]])
    /\ ld_queue' = Tail(ld_queue)
    /\ UNCHANGED <<edges, constraints, ld_pc, ld_input, ld_rerun, ld_snap,
                   loads>>
    /\ UNCHANGED ld_rest

(* lines 146-163: the MATCH .. MATCH .. MERGE .. SET of one relation *)
UpsertRelation ==
    /\ ld_pc = "loading"
    /\ ld_queue # <<>>
    /\ Head(ld_queue).kind = "rel"
    /\ LET g == MergeRelation(nodes, edges, Head(ld_queue).params)
       IN  /\ nodes' = g.nodes
           /\ edges' = g.edges
    /\ ld_queue' = Tail(ld_queue)
    /\ UNCHANGED <<constraints, ld_pc, ld_input, ld_rerun, ld_snap, loads>>
    /\ UNCHANGED ld_rest

(* line 163: the last statement has been issued *)
LoadFinish ==
    /\ ld_pc = "loading"
    /\ ld_queue = <<>>
    /\ ld_pc' = "done"
    /\ UNCHANGED <<nodes, edges, constraints, ld_input, ld_queue, ld_rerun,
                   ld_snap, loads>>
    /\ UNCHANGED ld_rest

(* load_to_neo4j.py lines 125-126: the caller goes on to its next fragment *)
LoadReturn ==
    /\ ld_pc \in {"done", "raised"}
    /\ ld_pc' = "idle"
    /\ ld_input' = NoValue
    /\ ld_rerun' = FALSE
    /\ ld_snap' = NoValue
    /\ UNCHANGED <<nodes, edges, constraints, ld_queue, loads>>
    /\ UNCHANGED ld_rest

(* the caller runs etl_load_to_neo4j again on the same structured_output *)
LoadAgain ==
    /\ ld_pc = "done"
    /\ ~ld_rerun
    /\ ld_pc' = "loading"
    /\ ld_queue' = Statements(ld_input)
    /\ ld_rerun' = TRUE
    /\ ld_snap' = [nodes |-> nodes, edges |-> edges]
    /\ UNCHANGED <<nodes, edges, constraints, ld_input, loads>>
    /\ UNCHANGED ld_rest

LoaderNext ==
    \/ LoadBegin
    \/ LoadConnectFail
    \/ SetConstraints
    \/ UpsertEntity
    \/ UpsertRelation
    \/ LoadFinish
    \/ LoadReturn
    \/ LoadAgain

-----------------------------------------------------------------------------
(* Graph preparation: summary text, materialized relations, common label,
   embeddings and vector index (generate_embeddings.py) *)

MaxPrepares == 2

(* coalesce(v, '') *)
Coalesce(v) == IF v = Null THEN "" ELSE v

(* n.k, which is null when the property is not there *)
Prop(props, k) == IF k \in DOMAIN props THEN props[k] ELSE Null

(* toString() of a float holding a whole number, as fuerza_relacion does *)
FloatToString(f) == ToString(f) \o ".0"

(* lines 34-80: the five MATCH (n:Label) SET n.text = .. statements *)
TextStatements ==
    <<[label |-> "Persona", head |-> "Persona: ",
       caption |-> ", profesión: ", attr |-> "profesion"],
      [label |-> "Empresa", head |-> "Empresa: ",
       caption |-> ", industria: ", attr |-> "industria"],
      [label |-> "centroeducativo", head |-> "Centro Educativo: ",
       caption |-> ", localización: ", attr |-> "localizacion"],
      [label |-> "movimiento", head |-> "Movimiento: ",
       caption |-> ", categoría: ", attr |-> "categoria"],
      [label |-> "producto", head |-> "Producto: ",
       caption |-> ", subtipo: ", attr |-> "subtipo"]>>

NodeText(st, props) ==
    st.head \o Coalesce(Prop(props, "nombre"))
        \o ", tipo: " \o Coalesce(Prop(props, "tipo"))
        \o ", descripción: " \o Coalesce(Prop(props, "descripcion"))
        \o st.caption \o Coalesce(Prop(props, st.attr))

(* MATCH (n:Label) SET n.text = .. *)
SetTextByLabel(ns, st) ==
    [i \in 1..Len(ns) |->
        IF st.label \in ns[i].labels
        THEN [ns[i] EXCEPT !.props = SetProps(@, [text |-> NodeText(st, @)])]
        ELSE ns[i]]

RECURSIVE SetTexts(_, _)
SetTexts(ns, sts) ==
    IF sts = <<>> THEN ns
    ELSE SetTexts(SetTextByLabel(ns, Head(sts)), Tail(sts))

(* build_representative_text_from_node_properties *)
BuildRepresentativeTextFromNodeProperties(ns) == SetTexts(ns, TextStatements)

(* lines 85-91: the text of one RELACION edge; the loader always sets
   fuerza_relacion, so its coalesce never takes the default *)
RelText(props) ==
    "Relación: " \o Coalesce(Prop(props, "descripcion_relacion"))
        \o ", fuerza: " \o FloatToString(props.fuerza_relacion)
        \o ", id: " \o Coalesce(Prop(props, "id"))

(* build_representative_text_for_relationships *)
BuildRepresentativeTextForRelationships(es) ==
    [k \in 1..Len(es) |->
        IF es[k].type = "RELACION"
        THEN [es[k] EXCEPT !.props = SetProps(@, [text |-> RelText(@)])]
        ELSE es[k]]

(* MATCH (origen)-[r:RELACION]->(destino) WHERE origen.text IS NOT NULL
   AND destino.text IS NOT NULL AND r.text IS NOT NULL *)
MaterializeRowsOf(ns, es) ==
    LET Qualifies(e) ==
            /\ e.type = "RELACION"
            /\ Prop(ns[e.src].props, "text") # Null
            /\ Prop(ns[e.dst].props, "text") # Null
            /\ Prop(e.props, "text") # Null
    IN  SelectSeq(es, Qualifies)

(* lines 99-102 *)
MaterializedText(origen, destino, r) ==
    "Entidad de origen: " \o origen.props.text \o "\n"
        \o "Entidad de destino: " \o destino.props.text \o "\n"
        \o "Relación: " \o r.props.text

(* MERGE (relMat)-[:FROM]->(origen) / MERGE (relMat)-[:TO]->(destino) for
   every bound relMat *)
MergeAuxEdges(es, bound, target, type) ==
    LET have  == {<<es[k].src, es[k].dst>> :
                     k \in {j \in 1..Len(es) : es[j].type = type}}
        fresh == PairsToSeq({<<m, target>> : m \in bound} \ have)
    IN  es \o [k \in 1..Len(fresh) |->
                 [src |-> fresh[k][1], dst |-> fresh[k][2], type |-> type,
                  props |-> <<>>]]

(* lines 98-105 applied to the matched rows, one after the other *)
RECURSIVE MaterializeRows(_, _, _)
MaterializeRows(ns, es, rows) ==
    IF rows = <<>> THEN [nodes |-> ns, edges |-> es]
    ELSE LET r     == Head(rows)
             found == MatchByLabelAndId(ns, "RelMaterializada", r.props.id)
             ns1   == IF found = {}
                      THEN Append(ns, [labels |-> {"RelMaterializada"},
                                       props |-> [id |-> r.props.id]])
                      ELSE ns
             bound == IF found = {} THEN {Len(ns1)} ELSE found
             ns2   == [i \in 1..Len(ns1) |->
                         IF i \in bound
                         THEN [ns1[i] EXCEPT !.props =
                                 SetProps(@, [text |->
                                     MaterializedText(ns1[r.src], ns1[r.dst],
                                                      r)])]
                         ELSE ns1[i]]
             es1   == MergeAuxEdges(es, bound, r.src, "FROM")
             es2   == MergeAuxEdges(es1, bound, r.dst, "TO")
         IN  MaterializeRows(ns2, es2, Tail(rows))

(* convert_relationships_as_nodes *)
ConvertRelationshipsAsNodes(ns, es) ==
    MaterializeRows(ns, es, MaterializeRowsOf(ns, es))

(* lines 118-120: the labels that receive the common label *)
CommonLabelled ==
    {"Persona", "Empresa", "producto", "movimiento", "centroeducativo",
     "RelMaterializada"}

(* set_common_label *)
SetCommonLabel(ns) ==
    [i \in 1..Len(ns) |->
        IF ns[i].labels \cap CommonLabelled # {}
        THEN [ns[i] EXCEPT !.labels = @ \cup {"Entity"}]
        ELSE ns[i]]

(* emb.embed_query(node_text) *)
EmbedQuery(text) == "embedding(" \o text \o ")"

(* lines 135-141: MATCH (n:Entity) WHERE n.text IS NOT NULL AND
   n.embedding IS NULL RETURN elementId(n) AS eid, n.text AS text *)
EmbeddingRecords(ns) ==
    LET Missing(i) ==
            /\ "Entity" \in ns[i].labels
            /\ Prop(ns[i].props, "text") # Null
            /\ Prop(ns[i].props, "embedding") = Null
    IN  [k \in 1..Len(SelectSeq([i \in 1..Len(ns) |-> i], Missing)) |->
            [eid  |-> SelectSeq([i \in 1..Len(ns) |-> i], Missing)[k],
             text |-> ns[SelectSeq([i \in 1..Len(ns) |-> i], Missing)[k]]
                         .props.text]]

(* line 144: the column of the record read as the node id *)
RecordIdKey == "id"

(* lines 152-155: the name the node id is passed under *)
ParamIdKey == "id"

(* lines 144-156: one turn of the loop over the records.  rec[..] of a
   column the query did not return raises KeyError; a statement whose $eid
   parameter is not supplied is rejected by the store *)
EmbedRecord(ns, rec) ==
    IF RecordIdKey \notin DOMAIN rec
    THEN [raised |-> TRUE, nodes |-> ns]
    ELSE LET params == [k \in {ParamIdKey, "vector"} |->
                          IF k = "vector" THEN EmbedQuery(rec.text)
                          ELSE rec[RecordIdKey]]
         IN  IF "eid" \notin DOMAIN params
             THEN [raised |-> TRUE, nodes |-> ns]
             ELSE [raised |-> FALSE,
                   nodes  |-> [i \in 1..Len(ns) |->
                                 IF i = params.eid
                                 THEN [ns[i] EXCEPT !.props =
                                         SetProps(@, [embedding |->
                                                        params.vector])]
                                 ELSE ns[i]]]

(* the graph after every statement of a load, in order *)
RECURSIVE ApplyStatements(_, _)
ApplyStatements(g, q) ==
    IF q = <<>> THEN g
    ELSE LET st == Head(q)
         IN  ApplyStatements(
               CASE st.kind = "constraints" ->
                      [g EXCEPT !.constraints =
                          SetUniquenessConstraints(@, st.labels)]
                 [] st.kind = "node" ->
                      [g EXCEPT !.nodes =
                          MergeNode(@, st.label, st.params.id,
                                    [k \in (DOMAIN st.params) \ {"id"} |->
                                        st.params[k]])]
                 [] st.kind = "rel" ->
                      LET m == MergeRelation(g.nodes, g.edges, st.params)
                      IN  [g EXCEPT !.nodes = m.nodes, !.edges = m.edges],
               Tail(q))

(* the fragments loaded between preparation runs: two versions of Persona
   "a", an Empresa under the same id, a Producto "b", and two relations
   a -> b of different ids *)
PrepFragments ==
    {f \in Fragments :
        /\ f.entidades.centros_educativos = <<>>
        /\ f.entidades.movimientos = <<>>
        /\ \A i \in 1..Len(f.relaciones.relaciones) :
              /\ f.relaciones.relaciones[i].entidad_origen.id = "a"
              /\ f.relaciones.relaciones[i].entidad_destino.id = "b"}

PrepareIdle ==
    /\ pg_pc = "idle"
    /\ pg_records = <<>>
    /\ pg_runs = 0
    /\ vector_index = FALSE
    /\ pg_recomputed = {}

(* load_to_neo4j.py lines 125-126: etl_load_to_neo4j runs to completion on
   one fragment *)
PrepLoad ==
    /\ pg_pc = "idle"
    /\ loads < MaxLoads
    /\ \E obj \in PrepFragments :
          LET g == ApplyStatements(
                     [nodes |-> nodes, edges |-> edges,
                      constraints |-> constraints], Statements(obj))
          IN  /\ nodes' = g.nodes
              /\ edges' = g.edges
              /\ constraints' = g.constraints
    /\ loads' = loads + 1
    /\ UNCHANGED <<ld_pc, ld_input, ld_queue, ld_rerun, ld_snap>>
    /\ UNCHANGED pg_vars
    /\ UNCHANGED pg_rest

(* lines 172-174: prepare_graph_embeddings_index connects *)
PrepBegin ==
    /\ pg_pc = "idle"
    /\ pg_runs < MaxPrepares
    /\ pg_pc' = "node_text"
    /\ pg_runs' = pg_runs + 1
    /\ UNCHANGED <<pg_records, vector_index, pg_recomputed>>
    /\ UNCHANGED <<ld_vars, pg_rest>>

(* lines 12-27 and 34: connect_to_neo4j() returned None and the first
   graph.query raises AttributeError *)
PrepConnectFail ==
    /\ pg_pc = "idle"
    /\ pg_runs < MaxPrepares
    /\ pg_pc' = "raised"
    /\ pg_runs' = pg_runs + 1
    /\ UNCHANGED <<pg_records, vector_index, pg_recomputed>>
    /\ UNCHANGED <<ld_vars, pg_rest>>

(* line 177; pg_recomputed notes the nodes whose text the statements
   replaced by another one *)
BuildNodeText ==
    /\ pg_pc = "node_text"
    /\ nodes' = BuildRepresentativeTextFromNodeProperties(nodes)
    /\ pg_recomputed' =
          {i \in 1..Len(nodes) :
              /\ Prop(nodes[i].props, "text") # Null
              /\ Prop(nodes'[i].props, "text") # Prop(nodes[i].props, "text")}
    /\ pg_pc' = "rel_text"
    /\ UNCHANGED <<edges, constraints, ld_pc, ld_input, ld_queue, ld_rerun,
                   ld_snap, loads>>
    /\ UNCHANGED <<pg_records, pg_runs, vector_index>>
    /\ UNCHANGED pg_rest

(* line 180 *)
BuildRelText ==
    /\ pg_pc = "rel_text"
    /\ edges' = BuildRepresentativeTextForRelationships(edges)
    /\ pg_pc' = "materialize"
    /\ UNCHANGED <<nodes, constraints, ld_pc, ld_input, ld_queue, ld_rerun,
                   ld_snap, loads>>
    /\ UNCHANGED <<pg_records, pg_runs, vector_index, pg_recomputed>>
    /\ UNCHANGED pg_rest

(* line 183 *)
Materialize ==
    /\ pg_pc = "materialize"
    /\ LET g == ConvertRelationshipsAsNodes(nodes, edges)
       IN  /\ nodes' = g.nodes
           /\ edges' = g.edges
    /\ pg_pc' = "common_label"
    /\ UNCHANGED <<constraints, ld_pc, ld_input, ld_queue, ld_rerun, ld_snap,
                   loads>>
    /\ UNCHANGED <<pg_records, pg_runs, vector_index, pg_recomputed>>
    /\ UNCHANGED pg_rest

(* line 186 *)
CommonLabel ==
    /\ pg_pc = "common_label"
    /\ nodes' = SetCommonLabel(nodes)
    /\ pg_pc' = "embed_query"
    /\ UNCHANGED <<edges, constraints, ld_pc, ld_input, ld_queue, ld_rerun,
                   ld_snap, loads>>
    /\ UNCHANGED <<pg_records, pg_runs, vector_index, pg_recomputed>>
    /\ UNCHANGED pg_rest

(* common_settings.py lines 3-30: the fields Settings declares; reading any
   other attribute of the settings object raises AttributeError *)
SettingsFields ==
    {"OPENAI_API_KEY", "YOUTUBE_API_KEY", "TAVILY_API_KEY", "NEO4J_URI_BOLT",
     "NEO4J_URI_HTTP", "NEO4J_USER", "NEO4J_PASSWORD", "NEO4J_DATABASE",
     "PLAYLIST_ID", "DATA_DIR", "CHUNK_LENGTH_MS", "OVERLAP_MS",
     "TRANSCRIPTION_MODEL", "LLM_MODEL", "MAX_RETRIES"}

(* lines 131-141: generate_embeddings builds its client from
   settings.EMBEDDINGS_MODEL, then asks for the nodes to embed *)
EmbedSelect ==
    /\ pg_pc = "embed_query"
    /\ IF "EMBEDDINGS_MODEL" \in SettingsFields
       THEN /\ pg_records' = EmbeddingRecords(nodes)
            /\ pg_pc' = "embed_loop"
       ELSE /\ pg_pc' = "embed_raised"
            /\ UNCHANGED pg_records
    /\ UNCHANGED <<pg_runs, vector_index, pg_recomputed>>
    /\ UNCHANGED <<ld_vars, pg_rest>>

(* lines 143-156: the next record of the loop *)
EmbedNext ==
    /\ pg_pc = "embed_loop"
    /\ pg_records # <<>>
    /\ LET r == EmbedRecord(nodes, Head(pg_records))
       IN  /\ nodes' = r.nodes
           /\ IF r.raised
              THEN /\ pg_pc' = "embed_raised"
                   /\ UNCHANGED pg_records
              ELSE /\ pg_records' = Tail(pg_records)
                   /\ UNCHANGED pg_pc
    /\ UNCHANGED <<edges, constraints, ld_pc, ld_input, ld_queue, ld_rerun,
                   ld_snap, loads>>
    /\ UNCHANGED <<pg_runs, vector_index, pg_recomputed>>
    /\ UNCHANGED pg_rest

(* line 156: no record is left, generate_embeddings returns *)
EmbedReturn ==
    /\ pg_pc = "embed_loop"
    /\ pg_records = <<>>
    /\ pg_pc' = "create_index"
    /\ UNCHANGED <<pg_records, pg_runs, vector_index, pg_recomputed>>
    /\ UNCHANGED <<ld_vars, pg_rest>>

(* lines 158-170 and 192: CREATE VECTOR INDEX entity_emb IF NOT EXISTS *)
CreateIndex ==
    /\ pg_pc = "create_index"
    /\ vector_index' = TRUE
    /\ pg_pc' = "done"
    /\ UNCHANGED <<pg_records, pg_runs, pg_recomputed>>
    /\ UNCHANGED <<ld_vars, pg_rest>>

(* the preparation run is over, by return or by exception *)
PrepReturn ==
    /\ pg_pc \in {"done", "raised", "embed_raised"}
    /\ pg_pc' = "idle"
    /\ pg_records' = <<>>
    /\ pg_recomputed' = {}
    /\ UNCHANGED <<pg_runs, vector_index>>
    /\ UNCHANGED <<ld_vars, pg_rest>>

(* EmbedNext, EmbedReturn and CreateIndex are the code past line 141; no run
   gets there, since line 131 raises, so they are no disjunct of PrepareNext *)
PrepareNext ==
    \/ PrepLoad
    \/ PrepBegin
    \/ PrepConnectFail
    \/ BuildNodeText
    \/ BuildRelText
    \/ Materialize
    \/ CommonLabel
    \/ EmbedSelect
    \/ PrepReturn

-----------------------------------------------------------------------------
(* Text stages: Transcript Unifier, Corrector, Coreference Resolver,
   Translator *)

MaxTranscripts == 2

(* a dictionary with the keys k1 and k2 *)
Dict1(k, v) == k :> v

Dict2(k1, v1, k2, v2) == (k1 :> v1) @@ (k2 :> v2)

(* d.get(k, default) *)
Get(d, k, default) == IF k \in DOMAIN d THEN d[k] ELSE default

(* not s, for s a string or None *)
FalsyNoneOnly(s) == s = NoValue

Falsy(s) == s = NoValue \/ s = ""

(* the texts a previous stage may hand over *)
InputTexts == {"", "hola", "adios"}

(* result.content of a language-model call *)
Contents == {"", "hola", "adios"}

(* the input field each stage reads and the output field it returns *)
InputField(stage) ==
    CASE stage = "transcribe" -> "chunk_paths"
      [] stage = "unify"     -> "transcripts"
      [] stage = "correct"   -> "unified_transcript"
      [] stage = "coref"     -> "corrected_text"
      [] stage = "translate" -> "correference_resolution_text"
      [] stage = "extract"   -> "spanish_text"

OutputField(stage) ==
    CASE stage = "chunk"     -> "chunk_paths"
      [] stage = "transcribe" -> "transcripts"
      [] stage = "unify"     -> "unified_transcript"
      [] stage = "correct"   -> "corrected_text"
      [] stage = "coref"     -> "correference_resolution_text"
      [] stage = "translate" -> "spanish_text"
      [] stage = "extract"   -> "structured_output"

(* the artifact file of each stage:
   DATA_DIR / _video_id / "texts" / <dir> / <prefix>_{_video_id}.<ext> *)
ArtifactPath(stage, vid) ==
    CASE stage = "unify" ->
           <<"DATA_DIR", vid, "texts", "unified_chunks",
             <<"unified_", vid, ".txt">>>>
      [] stage = "correct" ->
           <<"DATA_DIR", vid, "texts", "corrected",
             <<"corrected_", vid, ".txt">>>>
      [] stage = "coref" ->
           <<"DATA_DIR", vid, "texts", "correference_resolution",
             <<"correference_resolution_", vid, ".txt">>>>
      [] stage = "translate" ->
           <<"DATA_DIR", vid, "texts", "spanish_text",
             <<"spanish_text_", vid, ".txt">>>>
      [] stage = "extract" ->
           <<"DATA_DIR", vid, "texts", "structured",
             <<"structured_", vid, ".json">>>>

(* -- language labels, as sequences of characters -- *)

Castellano == <<"c", "a", "s", "t", "e", "l", "l", "a", "n", "o">>

Valenciano == <<"v", "a", "l", "e", "n", "c", "i", "a", "n", "o">>

(* result_language.content values the classifier may answer *)
RawLabels ==
    {Castellano,
     Valenciano,
     <<"o", "t", "r", "o">>,
     <<"C", "a", "s", "t", "e", "l", "l", "a", "n", "o">>,
     <<" ", "c", "a", "s", "t", "e", "l", "l", "a", "n", "o", "\n">>,
     <<"V", "A", "L", "E", "N", "C", "I", "A", "N", "O", " ">>,
     <<"c", "a", "s", "t", "e", "l", "l", "a", "n", "o", ".">>,
     <<"O", "t", "r", "o">>,
     <<>>}

LowerChar(c) ==
    CASE c = "A" -> "a" [] c = "C" -> "c" [] c = "E" -> "e"
      [] c = "I" -> "i" [] c = "L" -> "l" [] c = "N" -> "n"
      [] c = "O" -> "o" [] c = "V" -> "v" [] OTHER -> c

(* str.lower() *)
Lower(cs) == [i \in 1..Len(cs) |-> LowerChar(cs[i])]

Whitespace == {" ", "\n", "\t"}

RECURSIVE LStrip(_)
LStrip(cs) ==
    IF cs # <<>> /\ Head(cs) \in Whitespace THEN LStrip(Tail(cs)) ELSE cs

RECURSIVE RStrip(_)
RStrip(cs) ==
    IF cs # <<>> /\ cs[Len(cs)] \in Whitespace
    THEN RStrip(SubSeq(cs, 1, Len(cs) - 1))
    ELSE cs

(* str.strip() *)
Strip(cs) == RStrip(LStrip(cs))

(* line 82: language = result_language.content.lower().strip() *)
LanguageOf(content) == Strip(Lower(content))

(* lines 93-117: the branch taken on the detected language *)
LanguageBranchAlwaysTranslate(language) ==
    IF language = Valenciano \/ language = Castellano THEN "translate"
    ELSE "unsupported"

LanguageBranchLenient(language) ==
    IF language = Valenciano THEN "translate" ELSE "pass"

LanguageBranch(language) ==
    IF language = Valenciano THEN "translate"
    ELSE IF language = Castellano THEN "pass"
    ELSE "unsupported"

(* -- the stage inputs -- *)

TextStages == {"correct", "coref", "translate", "extract"}

(* inputs of a text stage: the field absent, None, empty or a text *)
TextInputs(stage) ==
    {Dict1("_video_id", "vid")}
    \cup {Dict2("_video_id", "vid", InputField(stage), t) :
            t \in InputTexts \cup {NoValue}}

(* inputs of the unifier: the field absent or a list of transcripts *)
UnifyInputs ==
    {Dict1("_video_id", "vid")}
    \cup {Dict2("_video_id", "vid", "transcripts", ts) :
            ts \in SeqUpTo({"", "hola", "adios"}, MaxTranscripts)}

(* metadata.json of the item: missing, keyed by the item id, or keyed by
   another id *)
Metadatas ==
    {[exists |-> FALSE, json |-> <<>>],
     [exists |-> TRUE,
      json |-> Dict1("vid", [title |-> "T", description |-> "D"])],
     [exists |-> TRUE,
      json |-> Dict1("other", [title |-> "T", description |-> "D"])]}

(* with open(file_path, "w") as f: f.write(text) *)
WriteFile(writes, path, text) ==
    Append(writes, [path |-> path, content |-> text])

(* the dictionary a stage returns *)
StageOutput(stage, vid, text) == Dict2("_video_id", vid, OutputField(stage), text)

StageIdle ==
    /\ st_stage = "idle"
    /\ st_inputs = Dict1("_video_id", "vid")
    /\ st_meta = [exists |-> FALSE, json |-> <<>>]
    /\ st_pc = "idle"
    /\ st_idx = 1
    /\ st_text = ""
    /\ st_dir = FALSE
    /\ st_language = <<>>
    /\ st_calls = <<>>
    /\ st_writes = <<>>
    /\ st_out = <<>>

StageStart ==
    /\ st_stage \in {"unify"} \cup TextStages
    /\ st_inputs \in (IF st_stage = "unify" THEN UnifyInputs
                      ELSE TextInputs(st_stage))
    /\ st_meta \in (IF st_stage = "coref" THEN Metadatas
                    ELSE {[exists |-> FALSE, json |-> <<>>]})
    /\ st_pc = "start"
    /\ st_idx = 1
    /\ st_text = ""
    /\ st_dir = FALSE
    /\ st_language = <<>>
    /\ st_calls = <<>>
    /\ st_writes = <<>>
    /\ st_out = <<>>

(* the three ways the save block of a stage ends: the file is written;
   settings cannot be imported; mkdir/open/write raises and the exception is
   logged.  In every case the stage goes on to return its text *)
SaveAndReturn(stage) ==
    /\ \/ st_writes' = WriteFile(st_writes,
                                 ArtifactPath(stage, st_inputs["_video_id"]),
                                 st_text)
       \/ UNCHANGED st_writes
    /\ st_out' = StageOutput(stage, st_inputs["_video_id"], st_text)
    /\ st_pc' = "returned"

(* ---- UnifyTranscriptsChain._call ---- *)

(* lines 59-73: no transcripts, return the empty text *)
UnifyEmpty ==
    /\ st_stage = "unify"
    /\ st_pc = "start"
    /\ Get(st_inputs, "transcripts", <<>>) = <<>>
    /\ st_out' = StageOutput("unify", st_inputs["_video_id"], "")
    /\ st_pc' = "returned"
    /\ UNCHANGED <<st_stage, st_inputs, st_meta, st_idx, st_text, st_dir,
                   st_language, st_calls, st_writes>>
    /\ UNCHANGED st_rest

(* line 75: unified_transcript = "" *)
UnifyBegin ==
    /\ st_stage = "unify"
    /\ st_pc = "start"
    /\ Get(st_inputs, "transcripts", <<>>) # <<>>
    /\ st_text' = ""
    /\ st_idx' = 1
    /\ st_pc' = "loop"
    /\ UNCHANGED <<st_stage, st_inputs, st_meta, st_dir, st_language,
                   st_calls, st_writes, st_out>>
    /\ UNCHANGED st_rest

(* lines 80-83: the dictionary handed to the unifier chain *)
UnifierArgsFresh(unified, chunk) == [unified_text |-> "", chunk_text |-> chunk]

UnifierArgs(unified, chunk) == [unified_text |-> unified, chunk_text |-> chunk]

(* lines 77-98: one turn of the loop; an exception of the wrapped chain is
   logged and re-raised *)
UnifyInvoke ==
    /\ st_stage = "unify"
    /\ st_pc = "loop"
    /\ st_idx <= Len(st_inputs["transcripts"])
    /\ LET args == UnifierArgs(st_text, st_inputs["transcripts"][st_idx])
       IN  \/ \E content \in Contents :
                /\ st_calls' = Append(st_calls,
                       [chain |-> "unifier", args |-> args, ok |-> TRUE,
                        content |-> content])
                /\ st_text' = content
                /\ st_idx' = st_idx + 1
                /\ UNCHANGED st_pc
           \/ /\ st_calls' = Append(st_calls,
                       [chain |-> "unifier", args |-> args, ok |-> FALSE,
                        content |-> ""])
              /\ st_pc' = "raised"
              /\ UNCHANGED <<st_text, st_idx>>
    /\ UNCHANGED <<st_stage, st_inputs, st_meta, st_dir, st_language,
                   st_writes, st_out>>
    /\ UNCHANGED st_rest

(* lines 102-133: save the unified transcript and return it *)
UnifySave ==
    /\ st_stage = "unify"
    /\ st_pc = "loop"
    /\ st_idx > Len(st_inputs["transcripts"])
    /\ SaveAndReturn("unify")
    /\ UNCHANGED <<st_stage, st_inputs, st_meta, st_idx, st_text, st_dir,
                   st_language, st_calls>>
    /\ UNCHANGED st_rest

(* ---- OrtographyCorrectionChain._call ---- *)

(* lines 50-58 *)
CorrectEmpty ==
    /\ st_stage = "correct"
    /\ st_pc = "start"
    /\ Falsy(Get(st_inputs, "unified_transcript", NoValue))
    /\ st_out' = StageOutput("correct", st_inputs["_video_id"], "")
    /\ st_pc' = "returned"
    /\ UNCHANGED <<st_stage, st_inputs, st_meta, st_idx, st_text, st_dir,
                   st_language, st_calls, st_writes>>
    /\ UNCHANGED st_rest

(* lines 60-83 *)
CorrectInvoke ==
    /\ st_stage = "correct"
    /\ st_pc = "start"
    /\ ~Falsy(Get(st_inputs, "unified_transcript", NoValue))
    /\ LET args == [text_to_correct |-> st_inputs["unified_transcript"]]
       IN  \/ \E content \in Contents :
                /\ st_calls' = Append(st_calls,
                       [chain |-> "corrective", args |-> args, ok |-> TRUE,
                        content |-> content])
                /\ st_text' = content
                /\ st_pc' = "save"
           \/ /\ st_calls' = Append(st_calls,
                       [chain |-> "corrective", args |-> args, ok |-> FALSE,
                        content |-> ""])
              /\ st_pc' = "raised"
              /\ UNCHANGED st_text
    /\ UNCHANGED <<st_stage, st_inputs, st_meta, st_idx, st_dir, st_language,
                   st_writes, st_out>>
    /\ UNCHANGED st_rest

(* lines 87-115 *)
CorrectSave ==
    /\ st_stage = "correct"
    /\ st_pc = "save"
    /\ SaveAndReturn("correct")
    /\ UNCHANGED <<st_stage, st_inputs, st_meta, st_idx, st_text, st_dir,
                   st_language, st_calls>>
    /\ UNCHANGED st_rest

(* ---- CorreferenceResolutionChain._call ---- *)

(* lines 52-60 *)
CorefEmpty ==
    /\ st_stage = "coref"
    /\ st_pc = "start"
    /\ Falsy(Get(st_inputs, "corrected_text", NoValue))
    /\ st_out' = StageOutput("coref", st_inputs["_video_id"], "")
    /\ st_pc' = "returned"
    /\ UNCHANGED <<st_stage, st_inputs, st_meta, st_idx, st_text, st_dir,
                   st_language, st_calls, st_writes>>
    /\ UNCHANGED st_rest

(* lines 68-93: title and description of the item, "" when the metadata file
   is missing, does not name the item, or cannot be read *)
VideoContext(meta, vid) ==
    IF meta.exists
    THEN [video_title |->
             Get(Get(meta.json, vid, <<>>), "title", ""),
          video_description |->
             Get(Get(meta.json, vid, <<>>), "description", "")]
    ELSE [video_title |-> "", video_description |-> ""]

(* lines 62-111: read the metadata, call the wrapped chain *)
CorefInvoke ==
    /\ st_stage = "coref"
    /\ st_pc = "start"
    /\ ~Falsy(Get(st_inputs, "corrected_text", NoValue))
    /\ \E ctx \in {VideoContext(st_meta, st_inputs["_video_id"]),
                   [video_title |-> "", video_description |-> ""]} :
          LET args == [video_title |-> ctx.video_title,
                       video_description |-> ctx.video_description,
                       text_to_correct_correferences |->
                           st_inputs["corrected_text"]]
          IN  \/ \E content \in Contents :
                   /\ st_calls' = Append(st_calls,
                          [chain |-> "correference_resolution",
                           args |-> args, ok |-> TRUE, content |-> content])
                   /\ st_text' = content
                   /\ st_pc' = "save"
              \/ /\ st_calls' = Append(st_calls,
                          [chain |-> "correference_resolution",
                           args |-> args, ok |-> FALSE, content |-> ""])
                 /\ st_pc' = "raised"
                 /\ UNCHANGED st_text
    /\ UNCHANGED <<st_stage, st_inputs, st_meta, st_idx, st_dir, st_language,
                   st_writes, st_out>>
    /\ UNCHANGED st_rest

(* lines 114-141 *)
CorefSave ==
    /\ st_stage = "coref"
    /\ st_pc = "save"
    /\ SaveAndReturn("coref")
    /\ UNCHANGED <<st_stage, st_inputs, st_meta, st_idx, st_text, st_dir,
                   st_language, st_calls>>
    /\ UNCHANGED st_rest

(* ---- TranslationChain._call ---- *)

(* lines 56-64 *)
TransEmpty ==
    /\ st_stage = "translate"
    /\ st_pc = "start"
    /\ Falsy(Get(st_inputs, "correference_resolution_text", NoValue))
    /\ st_out' = StageOutput("translate", st_inputs["_video_id"], "")
    /\ st_pc' = "returned"
    /\ UNCHANGED <<st_stage, st_inputs, st_meta, st_idx, st_text, st_dir,
                   st_language, st_calls, st_writes>>
    /\ UNCHANGED st_rest

(* lines 67-76: output_dir is made; on ImportError it is None; any other
   exception (mkdir) is not caught *)
TransPrepareDir ==
    /\ st_stage = "translate"
    /\ st_pc = "start"
    /\ ~Falsy(Get(st_inputs, "correference_resolution_text", NoValue))
    /\ \/ st_dir' = TRUE /\ st_pc' = "detect"
       \/ st_dir' = FALSE /\ st_pc' = "detect"
       \/ st_dir' = FALSE /\ st_pc' = "raised"
    /\ UNCHANGED <<st_stage, st_inputs, st_meta, st_idx, st_text,
                   st_language, st_calls, st_writes, st_out>>
    /\ UNCHANGED st_rest

(* lines 80-91: classify the language *)
TransDetect ==
    /\ st_stage = "translate"
    /\ st_pc = "detect"
    /\ LET args == [text_to_dect |->
                       st_inputs["correference_resolution_text"]]
       IN  \/ \E content \in RawLabels :
                /\ st_calls' = Append(st_calls,
                       [chain |-> "detect", args |-> args, ok |-> TRUE,
                        content |-> content])
                /\ st_language' = LanguageOf(content)
                /\ st_pc' = "branch"
           \/ /\ st_calls' = Append(st_calls,
                       [chain |-> "detect", args |-> args, ok |-> FALSE,
                        content |-> <<>>])
              /\ st_pc' = "raised"
              /\ UNCHANGED st_language
    /\ UNCHANGED <<st_stage, st_inputs, st_meta, st_idx, st_text, st_dir,
                   st_writes, st_out>>
    /\ UNCHANGED st_rest

(* lines 93-109: valenciano, translate *)
TransTranslate ==
    /\ st_stage = "translate"
    /\ st_pc = "branch"
    /\ LanguageBranch(st_language) = "translate"
    /\ LET args == [text_to_translate |->
                       st_inputs["correference_resolution_text"]]
       IN  \/ \E content \in Contents :
                /\ st_calls' = Append(st_calls,
                       [chain |-> "translate", args |-> args, ok |-> TRUE,
                        content |-> content])
                /\ st_text' = content
                /\ st_pc' = "save"
           \/ /\ st_calls' = Append(st_calls,
                       [chain |-> "translate", args |-> args, ok |-> FALSE,
                        content |-> ""])
              /\ st_pc' = "raised"
              /\ UNCHANGED st_text
    /\ UNCHANGED <<st_stage, st_inputs, st_meta, st_idx, st_dir, st_language,
                   st_writes, st_out>>
    /\ UNCHANGED st_rest

(* lines 111-113: castellano, final_text = original_text *)
TransPassThrough ==
    /\ st_stage = "translate"
    /\ st_pc = "branch"
    /\ LanguageBranch(st_language) = "pass"
    /\ st_text' = st_inputs["correference_resolution_text"]
    /\ st_pc' = "save"
    /\ UNCHANGED <<st_stage, st_inputs, st_meta, st_idx, st_dir, st_language,
                   st_calls, st_writes, st_out>>
    /\ UNCHANGED st_rest

(* lines 115-117: raise ValueError(f"Unsupported language: {language}") *)
TransUnsupported ==
    /\ st_stage = "translate"
    /\ st_pc = "branch"
    /\ LanguageBranch(st_language) = "unsupported"
    /\ st_pc' = "raised"
    /\ UNCHANGED <<st_stage, st_inputs, st_meta, st_idx, st_text, st_dir,
                   st_language, st_calls, st_writes, st_out>>
    /\ UNCHANGED st_rest

(* lines 119-138: the file is written only when output_dir is set; a failed
   write is logged; the text is returned *)
TransSave ==
    /\ st_stage = "translate"
    /\ st_pc = "save"
    /\ \/ /\ st_dir
          /\ st_writes' = WriteFile(st_writes,
                 ArtifactPath("translate", st_inputs["_video_id"]), st_text)
       \/ UNCHANGED st_writes
    /\ st_out' = StageOutput("translate", st_inputs["_video_id"], st_text)
    /\ st_pc' = "returned"
    /\ UNCHANGED <<st_stage, st_inputs, st_meta, st_idx, st_text, st_dir,
                   st_language, st_calls>>
    /\ UNCHANGED st_rest

(* ---- Structured Extractor: GetStructuredOutputChain._call ---- *)

ListFields ==
    {"personas", "empresas", "centros_educativos", "movimientos",
     "productos"}

(* the entity class held by each list field of Entidades *)
ClassOfField(f) ==
    CASE f = "personas"           -> "Persona"
      [] f = "empresas"           -> "Empresa"
      [] f = "centros_educativos" -> "CentroEducativo"
      [] f = "movimientos"        -> "Movimiento"
      [] f = "productos"          -> "Producto"

(* pydantic_models.py lines 6-53: nombre and descripcion are required, tipo
   is the Literal of the class (Producto's has a default), profesion is
   required, the attribute of the other classes is Optional *)
ValidEntity(v, e) ==
    /\ {"id", "nombre", "descripcion"} \subseteq DOMAIN e
    /\ IF "tipo" \in DOMAIN e THEN e["tipo"] = v ELSE v = "Producto"
    /\ v = "Persona" => "profesion" \in DOMAIN e

(* the entity object built from a valid dictionary: absent Optional
   attributes become None *)
EntityOf(v, e) ==
    Entity(v, e["id"], e["nombre"], e["descripcion"],
           Get(e, AttrName(v), Null))

(* OutputSchema.model_validate(j): entidades and relaciones are required,
   every list of Entidades and Relaciones defaults to the empty list *)
ModelValidateNonEmpty(j) ==
    IF /\ {"entidades", "relaciones"} \subseteq DOMAIN j
       /\ \E f \in ListFields : Get(j["entidades"], f, <<>>) # <<>>
    THEN [ok |-> TRUE, obj |-> j]
    ELSE [ok |-> FALSE, obj |-> <<>>]

ModelValidate(j) ==
    IF /\ {"entidades", "relaciones"} \subseteq DOMAIN j
       /\ \A f \in ListFields :
             \A i \in 1..Len(Get(j["entidades"], f, <<>>)) :
                 ValidEntity(ClassOfField(f), j["entidades"][f][i])
    THEN [ok  |-> TRUE,
          obj |-> [entidades |->
                      [f \in ListFields |->
                          [i \in 1..Len(Get(j["entidades"], f, <<>>)) |->
                              EntityOf(ClassOfField(f),
                                       j["entidades"][f][i])]],
                   relaciones |->
                      [relaciones |->
                          Get(j["relaciones"], "relaciones", <<>>)]]]
    ELSE [ok |-> FALSE, obj |-> <<>>]

(* result.model_dump_json(indent=2): the object as a JSON document *)
ModelDumpJson(obj) == <<"json", obj>>

(* json.loads(input_str) *)
JsonLoads(str) == str[2]

(* the object with no entity and no relation *)
EmptyResult ==
    [entidades |-> [f \in ListFields |-> <<>>],
     relaciones |-> [relaciones |-> <<>>]]

(* JSON answers of the language model: the empty collections spelled out,
   empty objects for both containers, an empty document, one Persona with
   one relation, a Persona under a wrong tipo, a Persona without a name *)
LlmAnswers ==
    {EmptyResult,
     [entidades |-> <<>>, relaciones |-> <<>>],
     <<>>,
     [entidades |-> [personas |-> <<Entity("Persona", "a", "n1", "d1", "x1")>>,
                     productos |-> <<[id |-> "b", nombre |-> "n1",
                                      descripcion |-> "d1"]>>],
      relaciones |-> [relaciones |-> <<Relation("r1", "a", "b", "d1", 1)>>]],
     [entidades |-> [personas |-> <<Entity("Empresa", "a", "n2", "d2", Null)>>],
      relaciones |-> <<>>],
     [entidades |-> [personas |-> <<[id |-> "a", tipo |-> "Persona",
                                     descripcion |-> "d1",
                                     profesion |-> "x1"]>>],
      relaciones |-> <<>>]}

(* lines 35-43: no text, the dictionary returned holds spanish_text *)
ExtractEmpty ==
    /\ st_stage = "extract"
    /\ st_pc = "start"
    /\ Falsy(Get(st_inputs, "spanish_text", NoValue))
    /\ st_out' = Dict2("_video_id", st_inputs["_video_id"],
                       "spanish_text", "")
    /\ st_pc' = "returned"
    /\ UNCHANGED <<st_stage, st_inputs, st_meta, st_idx, st_text, st_dir,
                   st_language, st_calls, st_writes>>
    /\ UNCHANGED st_rest

(* lines 45-68: prompt | llm | parser; the parser raises on an answer that
   does not validate; every exception is logged and re-raised *)
ExtractInvoke ==
    /\ st_stage = "extract"
    /\ st_pc = "start"
    /\ ~Falsy(Get(st_inputs, "spanish_text", NoValue))
    /\ LET args == [text_to_extract_entities |-> st_inputs["spanish_text"]]
       IN  \/ \E j \in LlmAnswers :
                /\ ModelValidate(j).ok
                /\ st_calls' = Append(st_calls,
                       [chain |-> "structured_output", args |-> args,
                        ok |-> TRUE, content |-> j])
                /\ st_text' = ModelDumpJson(ModelValidate(j).obj)
                /\ st_pc' = "save"
           \/ \E j \in LlmAnswers :
                /\ ~ModelValidate(j).ok
                /\ st_calls' = Append(st_calls,
                       [chain |-> "structured_output", args |-> args,
                        ok |-> FALSE, content |-> j])
                /\ st_pc' = "raised"
                /\ UNCHANGED st_text
           \/ /\ st_calls' = Append(st_calls,
                       [chain |-> "structured_output", args |-> args,
                        ok |-> FALSE, content |-> NoValue])
              /\ st_pc' = "raised"
              /\ UNCHANGED st_text
    /\ UNCHANGED <<st_stage, st_inputs, st_meta, st_idx, st_dir, st_language,
                   st_writes, st_out>>
    /\ UNCHANGED st_rest

(* lines 74-102 *)
ExtractSave ==
    /\ st_stage = "extract"
    /\ st_pc = "save"
    /\ SaveAndReturn("extract")
    /\ UNCHANGED <<st_stage, st_inputs, st_meta, st_idx, st_text, st_dir,
                   st_language, st_calls>>
    /\ UNCHANGED st_rest

StageNext ==
    \/ UnifyEmpty
    \/ UnifyBegin
    \/ UnifyInvoke
    \/ UnifySave
    \/ CorrectEmpty
    \/ CorrectInvoke
    \/ CorrectSave
    \/ CorefEmpty
    \/ CorefInvoke
    \/ CorefSave
    \/ TransEmpty
    \/ TransPrepareDir
    \/ TransDetect
    \/ TransTranslate
    \/ TransPassThrough
    \/ TransUnsupported
    \/ TransSave
    \/ ExtractEmpty
    \/ ExtractInvoke
    \/ ExtractSave

-----------------------------------------------------------------------------
(* Pipeline driver: the batches and the load loop of main
   (load_to_neo4j.py lines 55-126).  The batch is modelled for every list
   the statement of line 55 can iterate over; line 53 shortens the playlist
   to its first url before that. *)

MaxItems == 2

dr_rest == <<ck_vars, tr_vars, pg_vars, st_vars, pl_vars,
            cc_vars, se_vars>>

(* the chains in the order main runs their batches *)
StageOrder ==
    <<"chunk", "transcribe", "unify", "correct", "coref", "translate",
      "extract">>

(* the id of the i-th video of the playlist *)
ItemId(i) == "vid" \o ToString(i)

UrlLists == {[i \in 1..n |-> ItemId(i)] : n \in 0..MaxItems}

(* result.content of the language model of each stage *)
DriverText(stage) ==
    CASE stage = "unify"     -> "unified"
      [] stage = "correct"   -> "corrected"
      [] stage = "coref"     -> "resolved"
      [] stage = "translate" -> "translated"

(* what a _call does: it raises, or returns a dictionary; answered and
   answer keep the language model's JSON answer of the extractor *)
Raised == [raised |-> TRUE, out |-> <<>>, answered |-> FALSE, answer |-> <<>>]

Returned(out) ==
    [raised |-> FALSE, out |-> out, answered |-> FALSE, answer |-> <<>>]

(* video_chunking.py lines 63-125: a download, conversion or export error
   is re-raised; otherwise the paths of the segments are returned *)
ChunkCall(inputs) ==
    {Raised}
    \cup {Returned(Dict2("_video_id", inputs["_video_id"], "chunk_paths", ps)) :
            ps \in {<<>>, <<Outpath(inputs["_video_id"], 0)>>}}

(* transcription.py lines 58-118: a missing segment or a parser error
   raises; otherwise one transcript per path *)
TranscribeCall(inputs) ==
    (IF inputs["chunk_paths"] = <<>> THEN {} ELSE {Raised})
    \cup {Returned(Dict2("_video_id", inputs["_video_id"], "transcripts",
                         [i \in 1..Len(inputs["chunk_paths"]) |-> "hola"]))}

(* unifiy_transcriptions.py lines 55-133: the empty text on an empty list,
   else the model's text unless an invocation raises *)
UnifyCall(inputs) ==
    IF Get(inputs, "transcripts", <<>>) = <<>>
    THEN {Returned(StageOutput("unify", inputs["_video_id"], ""))}
    ELSE {Raised,
          Returned(StageOutput("unify", inputs["_video_id"],
                               DriverText("unify")))}

(* ortography_correction.py lines 49-115, correference_resolution.py lines
   51-141: the empty text on an empty input, else the model's text unless
   the invocation raises *)
TextCall(stage, inputs) ==
    LET v == Get(inputs, InputField(stage), NoValue)
    IN  IF Falsy(v)
        THEN {Returned(StageOutput(stage, inputs["_video_id"], ""))}
        ELSE {Raised,
              Returned(StageOutput(stage, inputs["_video_id"],
                                   DriverText(stage)))}

(* translation.py lines 55-138: besides, castellano returns the text as it
   came and an unsupported label raises *)
TranslateCall(inputs) ==
    LET v == Get(inputs, InputField("translate"), NoValue)
    IN  IF Falsy(v)
        THEN {Returned(StageOutput("translate", inputs["_video_id"], ""))}
        ELSE {Raised,
              Returned(StageOutput("translate", inputs["_video_id"], v)),
              Returned(StageOutput("translate", inputs["_video_id"],
                                   DriverText("translate")))}

(* get_structured_output.py lines 34-102 *)
ExtractCall(inputs) ==
    IF Falsy(Get(inputs, "spanish_text", NoValue))
    THEN {Returned(Dict2("_video_id", inputs["_video_id"],
                         "spanish_text", ""))}
    ELSE {Raised}
         \cup {IF ModelValidate(j).ok
               THEN [raised |-> FALSE,
                     out |-> StageOutput("extract", inputs["_video_id"],
                                 ModelDumpJson(ModelValidate(j).obj)),
                     answered |-> TRUE, answer |-> j]
               ELSE [raised |-> TRUE, out |-> <<>>,
                     answered |-> TRUE, answer |-> j] :
               j \in LlmAnswers}

Call(stage, inputs) ==
    CASE stage = "chunk"      -> ChunkCall(inputs)
      [] stage = "transcribe" -> TranscribeCall(inputs)
      [] stage = "unify"      -> UnifyCall(inputs)
      [] stage \in {"correct", "coref"} -> TextCall(stage, inputs)
      [] stage = "translate"  -> TranslateCall(inputs)
      [] stage = "extract"    -> ExtractCall(inputs)

(* output_keys of each chain *)
OutputKeys(stage) == {"_video_id", OutputField(stage)}

(* Chain.invoke, as batch() runs it for one item: the returned dictionary
   must hold every output key, and the result is {**inputs, **outputs} *)
Invoke(stage, inputs, c) ==
    IF c.raised \/ ~(OutputKeys(stage) \subseteq DOMAIN c.out)
    THEN [c EXCEPT !.raised = TRUE, !.out = <<>>]
    ELSE [c EXCEPT !.out = c.out @@ inputs]

(* the field of the previous results main copies into the next inputs *)
SourceFieldStale(stage) ==
    IF stage = "coref" THEN "unified_transcript" ELSE InputField(stage)

SourceField(stage) == InputField(stage)

(* lines 65-71, 75-81, 85-91, 95-101, 105-111, 115-121: the inputs of the
   next batch, one per result, in order *)
NextInputs(stage, results) ==
    [i \in 1..Len(results) |->
        Dict2("_video_id", results[i].out["_video_id"],
              InputField(stage), results[i].out[SourceField(stage)])]

Pending == [status |-> "pending", out |-> <<>>]

(* etl_load.py lines 36-163 for one item: the field is read, parsed and
   validated; without a connection the first graph.query raises *)
EtlLoadToNeo4j(g, item, connected) ==
    IF "structured_output" \notin DOMAIN item
    THEN [raised |-> TRUE, graph |-> g]
    ELSE LET v == ModelValidate(JsonLoads(item["structured_output"]))
         IN  IF ~v.ok \/ ~connected
             THEN [raised |-> TRUE, graph |-> g]
             ELSE [raised |-> FALSE,
                   graph |-> ApplyStatements(g, Statements(v.obj))]

DriverIdle ==
    /\ dr_pc = "idle"
    /\ dr_urls = <<>>
    /\ dr_stage = 1
    /\ dr_inputs = <<>>
    /\ dr_results = <<>>
    /\ dr_idx = 1
    /\ dr_log = <<>>

(* lines 55-61: inputs_chunk_chain *)
DriverStart ==
    /\ dr_pc = "batch"
    /\ dr_urls \in UrlLists
    /\ dr_stage = 1
    /\ dr_inputs = [i \in 1..Len(dr_urls) |-> Dict1("_video_id", dr_urls[i])]
    /\ dr_results = [i \in 1..Len(dr_urls) |-> Pending]
    /\ dr_idx = 1
    /\ dr_log = <<>>

(* lines 62, 72, 82, 92, 102, 112, 122: batch() invokes the chain on every
   input of the list, the items in any order *)
BatchInvoke ==
    /\ dr_pc = "batch"
    /\ \E i \in 1..Len(dr_inputs) :
          /\ dr_results[i].status = "pending"
          /\ \E c \in Call(StageOrder[dr_stage], dr_inputs[i]) :
                LET r == Invoke(StageOrder[dr_stage], dr_inputs[i], c)
                IN  /\ dr_results' =
                          [dr_results EXCEPT ![i] =
                              [status |-> IF r.raised THEN "raised" ELSE "ok",
                               out |-> r.out]]
                    /\ dr_log' = Append(dr_log,
                          [stage |-> StageOrder[dr_stage], item |-> i,
                           inputs |-> dr_inputs[i], ok |-> ~r.raised,
                           out |-> r.out, answered |-> r.answered,
                           answer |-> r.answer, connected |-> FALSE])
    /\ UNCHANGED <<dr_pc, dr_urls, dr_stage, dr_inputs, dr_idx>>
    /\ UNCHANGED ld_vars
    /\ UNCHANGED dr_rest

(* batch() re-raises the exception of an item once every item has run, and
   main has no handler *)
BatchRaise ==
    /\ dr_pc = "batch"
    /\ \A i \in 1..Len(dr_results) : dr_results[i].status # "pending"
    /\ \E i \in 1..Len(dr_results) : dr_results[i].status = "raised"
    /\ dr_pc' = "raised"
    /\ UNCHANGED <<dr_urls, dr_stage, dr_inputs, dr_results, dr_idx, dr_log>>
    /\ UNCHANGED ld_vars
    /\ UNCHANGED dr_rest

(* batch() returns the results in input order; main builds the inputs of the
   next batch, or enters the load loop after the last one (line 125) *)
BatchReturn ==
    /\ dr_pc = "batch"
    /\ \A i \in 1..Len(dr_results) : dr_results[i].status = "ok"
    /\ IF dr_stage < Len(StageOrder)
       THEN /\ dr_stage' = dr_stage + 1
            /\ dr_inputs' = NextInputs(StageOrder[dr_stage + 1], dr_results)
            /\ dr_results' = [i \in 1..Len(dr_results) |-> Pending]
            /\ UNCHANGED dr_pc
       ELSE /\ dr_pc' = "load"
            /\ UNCHANGED <<dr_stage, dr_inputs, dr_results>>
    /\ UNCHANGED <<dr_urls, dr_idx, dr_log>>
    /\ UNCHANGED ld_vars
    /\ UNCHANGED dr_rest

(* lines 125-126: etl_load_to_neo4j(item) for the next result; an exception
   leaves the loop and main *)
DriverLoad ==
    /\ dr_pc = "load"
    /\ dr_idx <= Len(dr_results)
    /\ \E connected \in BOOLEAN :
          LET item == dr_results[dr_idx].out
              r == EtlLoadToNeo4j([nodes |-> nodes, edges |-> edges,
                                   constraints |-> constraints],
                                  item, connected)
          IN  /\ nodes' = r.graph.nodes
              /\ edges' = r.graph.edges
              /\ constraints' = r.graph.constraints
              /\ dr_pc' = IF r.raised THEN "raised" ELSE "load"
              /\ dr_idx' = IF r.raised THEN dr_idx ELSE dr_idx + 1
              /\ dr_log' = Append(dr_log,
                    [stage |-> "load", item |-> dr_idx, inputs |-> item,
                     ok |-> ~r.raised, out |-> <<>>, answered |-> FALSE,
                     answer |-> <<>>, connected |-> connected])
    /\ UNCHANGED <<dr_urls, dr_stage, dr_inputs, dr_results>>
    /\ UNCHANGED <<ld_pc, ld_input, ld_queue, ld_rerun, ld_snap, loads>>
    /\ UNCHANGED dr_rest

(* line 126: the loop is exhausted and main returns *)
DriverReturn ==
    /\ dr_pc = "load"
    /\ dr_idx > Len(dr_results)
    /\ dr_pc' = "done"
    /\ UNCHANGED <<dr_urls, dr_stage, dr_inputs, dr_results, dr_idx, dr_log>>
    /\ UNCHANGED ld_vars
    /\ UNCHANGED dr_rest

DriverNext ==
    \/ BatchInvoke
    \/ BatchRaise
    \/ BatchReturn
    \/ DriverLoad
    \/ DriverReturn

-----------------------------------------------------------------------------
(* Source Lister: get_urls_from_playlist (extract_urls_from_playlist.py) *)

MaxPages == 2
MaxPageItems == 2

(* the playlists of the provider: one response page at least, each page
   holding the video ids of its items *)
Playlists ==
    {ps \in SeqUpTo(SeqUpTo({"a", "b"}, MaxPageItems), MaxPages) : ps # <<>>}

RECURSIVE Flatten(_)
Flatten(ps) == IF ps = <<>> THEN <<>> ELSE Head(ps) \o Flatten(Tail(ps))

(* lines 82-89: the dictionary dumped and the file it goes to *)
MetadataFile(vid) ==
    [path |-> <<"DATA_DIR", vid, "metadata.json">>,
     content |-> Dict1(vid, [title |-> "title", description |-> "description"])]

(* lines 94-96: HttpError on the details of one video: log and continue *)
AfterHttpErrorRaise(i) == [pc |-> "raised", idx |-> i]

AfterHttpError(i) == [pc |-> "details", idx |-> i + 1]

ListerIdle ==
    /\ pl_pc = "idle"
    /\ pl_pages = <<>>
    /\ pl_page = 1
    /\ videos = <<>>
    /\ pl_idx = 1
    /\ pl_outcomes = <<>>
    /\ pl_files = <<>>
    /\ pl_result = <<>>

(* lines 26-36 *)
ListerStart ==
    /\ pl_pc = "client"
    /\ pl_pages \in Playlists
    /\ pl_page = 1
    /\ videos = <<>>
    /\ pl_idx = 1
    /\ pl_outcomes = <<>>
    /\ pl_files = <<>>
    /\ pl_result = <<>>

(* lines 13-23 and 32: the client is built, or RuntimeError is raised *)
GetYoutubeClient ==
    /\ pl_pc = "client"
    /\ pl_pc' \in {"list", "raised"}
    /\ UNCHANGED <<pl_pages, pl_page, videos, pl_idx, pl_outcomes, pl_files,
                   pl_result>>
    /\ UNCHANGED pl_rest

(* lines 39-55: one page is fetched and its video ids appended; the loop
   ends on a page without nextPageToken *)
ListPage ==
    /\ pl_pc = "list"
    /\ videos' = videos \o pl_pages[pl_page]
    /\ IF pl_page < Len(pl_pages)
       THEN pl_page' = pl_page + 1 /\ UNCHANGED pl_pc
       ELSE pl_pc' = "details" /\ UNCHANGED pl_page
    /\ UNCHANGED <<pl_pages, pl_idx, pl_outcomes, pl_files, pl_result>>
    /\ UNCHANGED pl_rest

(* lines 57-62: HttpError or any other exception of the listing is logged
   and re-raised *)
ListPageError ==
    /\ pl_pc = "list"
    /\ pl_pc' = "raised"
    /\ UNCHANGED <<pl_pages, pl_page, videos, pl_idx, pl_outcomes, pl_files,
                   pl_result>>
    /\ UNCHANGED pl_rest

(* lines 65-92: the details of the video are fetched and metadata.json is
   written under the directory of the video *)
DetailSaved ==
    /\ pl_pc = "details"
    /\ pl_idx <= Len(videos)
    /\ pl_files' = Append(pl_files, MetadataFile(videos[pl_idx]))
    /\ pl_outcomes' = Append(pl_outcomes, "saved")
    /\ pl_idx' = pl_idx + 1
    /\ UNCHANGED <<pl_pc, pl_pages, pl_page, videos, pl_result>>
    /\ UNCHANGED pl_rest

(* lines 73-76: the response holds no item: warn and continue *)
DetailEmpty ==
    /\ pl_pc = "details"
    /\ pl_idx <= Len(videos)
    /\ pl_outcomes' = Append(pl_outcomes, "empty")
    /\ pl_idx' = pl_idx + 1
    /\ UNCHANGED <<pl_pc, pl_pages, pl_page, videos, pl_files, pl_result>>
    /\ UNCHANGED pl_rest

(* lines 94-96 *)
DetailHttpError ==
    /\ pl_pc = "details"
    /\ pl_idx <= Len(videos)
    /\ pl_outcomes' = Append(pl_outcomes, "http_error")
    /\ pl_pc' = AfterHttpError(pl_idx).pc
    /\ pl_idx' = AfterHttpError(pl_idx).idx
    /\ UNCHANGED <<pl_pages, pl_page, videos, pl_files, pl_result>>
    /\ UNCHANGED pl_rest

(* lines 97-99: any other exception (a malformed response, mkdir, open or
   json.dump failing) is logged and re-raised *)
DetailError ==
    /\ pl_pc = "details"
    /\ pl_idx <= Len(videos)
    /\ pl_outcomes' = Append(pl_outcomes, "error")
    /\ pl_pc' = "raised"
    /\ UNCHANGED <<pl_pages, pl_page, videos, pl_idx, pl_files, pl_result>>
    /\ UNCHANGED pl_rest

(* line 101 *)
ListerReturn ==
    /\ pl_pc = "details"
    /\ pl_idx > Len(videos)
    /\ pl_result' = videos
    /\ pl_pc' = "returned"
    /\ UNCHANGED <<pl_pages, pl_page, videos, pl_idx, pl_outcomes, pl_files>>
    /\ UNCHANGED pl_rest

ListerNext ==
    \/ GetYoutubeClient
    \/ ListPage
    \/ ListPageError
    \/ DetailSaved
    \/ DetailEmpty
    \/ DetailHttpError
    \/ DetailError
    \/ ListerReturn

-----------------------------------------------------------------------------
(* main from the playlist to the first batch (load_to_neo4j.py lines 52-61) *)

(* line 53: urls = urls[:1] *)
SliceUrls(urls) == SubSeq(urls, 1, Min(1, Len(urls)))

(* lines 52-61: the list get_urls_from_playlist returned is shortened, and
   one input of the chunk chain is built per url left *)
MainInputs ==
    /\ pl_pc = "returned"
    /\ dr_pc = "idle"
    /\ dr_urls' = SliceUrls(pl_result)
    /\ dr_inputs' = [i \in 1..Len(SliceUrls(pl_result)) |->
                        Dict1("_video_id", SliceUrls(pl_result)[i])]
    /\ dr_results' = [i \in 1..Len(SliceUrls(pl_result)) |-> Pending]
    /\ dr_pc' = "batch"
    /\ UNCHANGED <<dr_stage, dr_idx, dr_log>>
    /\ UNCHANGED ld_vars
    /\ UNCHANGED dr_rest

PipelineNext ==
    \/ ListerNext
    \/ MainInputs
    \/ DriverNext

-----------------------------------------------------------------------------
(* Two runs of etl_load_to_neo4j at the same time on one store: every
   graph.query() is one statement of its own (auto-commit), and the
   statements of the two runs reach the store in any interleaving that keeps
   the order of each run *)

cc_rest == <<ck_vars, tr_vars, pg_vars, st_vars, dr_vars, pl_vars, se_vars>>

(* the objects the two runs load: Persona "a" in two versions, Producto "b",
   and at most one relation, a -> b or b -> a *)
ConcurrentFragments ==
    {f \in Fragments :
        /\ f.entidades.empresas = <<>>
        /\ f.entidades.centros_educativos = <<>>
        /\ f.entidades.movimientos = <<>>
        /\ Len(f.relaciones.relaciones) <= 1
        /\ \A i \in 1..Len(f.relaciones.relaciones) :
              /\ f.relaciones.relaciones[i].id = "r1"
              /\ f.relaciones.relaciones[i].entidad_destino.id \in {"a", "b"}}

ConcurrentIdle ==
    /\ cc_pc = "idle"
    /\ cc_inputs = <<>>
    /\ cc_queues = <<>>

(* etl_load.py lines 36-48, in both runs *)
ConcurrentStart ==
    /\ cc_pc = "running"
    /\ cc_inputs \in ConcurrentFragments \X ConcurrentFragments
    /\ cc_queues = <<Statements(cc_inputs[1]), Statements(cc_inputs[2])>>

(* etl_load.py lines 50-163: the next graph.query() of one of the runs *)
ConcurrentQuery ==
    /\ cc_pc = "running"
    /\ \E i \in 1..2 :
          /\ cc_queues[i] # <<>>
          /\ LET g == ApplyStatements(
                        [nodes |-> nodes, edges |-> edges,
                         constraints |-> constraints],
                        <<Head(cc_queues[i])>>)
             IN  /\ nodes' = g.nodes
                 /\ edges' = g.edges
                 /\ constraints' = g.constraints
          /\ cc_queues' = [cc_queues EXCEPT ![i] = Tail(@)]
    /\ UNCHANGED <<cc_pc, cc_inputs>>
    /\ UNCHANGED <<ld_pc, ld_input, ld_queue, ld_rerun, ld_snap, loads>>
    /\ UNCHANGED cc_rest

(* line 163: both runs have issued their last statement *)
ConcurrentFinish ==
    /\ cc_pc = "running"
    /\ cc_queues = <<<<>>, <<>>>>
    /\ cc_pc' = "done"
    /\ UNCHANGED <<cc_inputs, cc_queues>>
    /\ UNCHANGED ld_vars
    /\ UNCHANGED cc_rest

ConcurrentNext ==
    \/ ConcurrentQuery
    \/ ConcurrentFinish

-----------------------------------------------------------------------------
(* Configuration: Settings (common_settings.py) and the chunker main builds
   from it (load_to_neo4j.py line 41) *)

(* CHUNK_LENGTH_MS: Field(..., ge=1000, le=3600000) *)
MinChunkLengthMs == 1000
MaxChunkLengthMs == 3600000

(* OVERLAP_MS: Field(..., ge=0, le=600000) *)
MaxOverlapMs == 600000

(* the values the environment may hold, around every limit of Settings *)
EnvChunks == {999, 1000, 2000, 3600000, 3600001}

EnvOverlaps == {-1, 0, 700, 701, 1000, 1400, 1401, 2000, 600000, 600001}

(* the durations in ms of the media of the item *)
Durations == {0, 1, 300, 2000, 2001, 4500}

(* lines 23-24 and 54-72: the field limits, then validate_chunking:
   OVERLAP_MS >= CHUNK_LENGTH_MS and OVERLAP_MS > int(CHUNK_LENGTH_MS * 0.7)
   are rejected *)
SettingsAcceptsFieldsOnly(chunk, overlap) ==
    /\ chunk >= MinChunkLengthMs /\ chunk <= MaxChunkLengthMs
    /\ overlap >= 0 /\ overlap <= MaxOverlapMs

SettingsAccepts(chunk, overlap) ==
    /\ chunk >= MinChunkLengthMs /\ chunk <= MaxChunkLengthMs
    /\ overlap >= 0 /\ overlap <= MaxOverlapMs
    /\ ~(overlap >= chunk)
    /\ ~(overlap > (chunk * 7) \div 10)

SettingsIdle ==
    /\ se_pc = "idle"
    /\ env_chunk = TestChunkMs
    /\ env_overlap = TestOverlapMs

SettingsStart ==
    /\ se_pc = "load"
    /\ env_chunk \in EnvChunks
    /\ env_overlap \in EnvOverlaps

(* line 74: settings = Settings() validates or raises *)
SettingsLoad ==
    /\ se_pc = "load"
    /\ se_pc' = IF SettingsAccepts(env_chunk, env_overlap)
                THEN "accepted" ELSE "rejected"
    /\ UNCHANGED <<env_chunk, env_overlap>>
    /\ UNCHANGED se_rest

(* load_to_neo4j.py line 41 and the chunker's first call: the chunk chain is
   built from settings.CHUNK_LENGTH_MS and settings.OVERLAP_MS *)
BuildChunker ==
    /\ se_pc = "accepted"
    /\ ck_pc = "idle"
    /\ se_pc' = "built"
    /\ chunk_length_ms' = env_chunk
    /\ overlap_ms' = env_overlap
    /\ audio_len' \in Durations
    /\ ck_pc' = "download"
    /\ UNCHANGED <<video_id, total, idx, start_ms, chunk_paths, exports>>
    /\ UNCHANGED <<env_chunk, env_overlap>>
    /\ UNCHANGED se_ck_rest

(* the chunker's steps under loaded settings; ChunkRangeError needs a step
   of 0, which C26's second conjunct shows no accepted settings produce *)
ChunkerUnderSettings ==
    \/ Download
    \/ Convert
    \/ ChunkExport
    \/ ChunkReturn

SettingsNext ==
    \/ SettingsLoad
    \/ BuildChunker
    \/ ChunkerUnderSettings

-----------------------------------------------------------------------------
(* Specifications *)

ChunkerInit ==
    ChunkerStart /\ TranscriberIdle /\ LoaderIdle /\ PrepareIdle /\ StageIdle
        /\ DriverIdle
        /\ ListerIdle
        /\ ConcurrentIdle
        /\ SettingsIdle

SpecChunker == ChunkerInit /\ [][ChunkerNext]_vars

TranscriberInit ==
    ChunkerIdle /\ TranscriberStart /\ LoaderIdle /\ PrepareIdle
        /\ StageIdle
        /\ DriverIdle
        /\ ListerIdle
        /\ ConcurrentIdle
        /\ SettingsIdle

SpecTranscriber == TranscriberInit /\ [][TranscriberNext]_vars

LoaderInit ==
    ChunkerIdle /\ TranscriberIdle /\ LoaderStart /\ PrepareIdle /\ StageIdle
        /\ DriverIdle
        /\ ListerIdle
        /\ ConcurrentIdle
        /\ SettingsIdle

SpecLoader == LoaderInit /\ [][LoaderNext]_vars

PrepareInit ==
    ChunkerIdle /\ TranscriberIdle /\ LoaderStart /\ PrepareIdle /\ StageIdle
        /\ DriverIdle
        /\ ListerIdle
        /\ ConcurrentIdle
        /\ SettingsIdle

SpecPrepare == PrepareInit /\ [][PrepareNext]_vars

StageInit ==
    ChunkerIdle /\ TranscriberIdle /\ LoaderIdle /\ PrepareIdle /\ StageStart
        /\ DriverIdle
        /\ ListerIdle
        /\ ConcurrentIdle
        /\ SettingsIdle

SpecStage == StageInit /\ [][StageNext]_vars

DriverInit ==
    ChunkerIdle /\ TranscriberIdle /\ LoaderStart /\ PrepareIdle /\ StageIdle
        /\ DriverStart
        /\ ListerIdle
        /\ ConcurrentIdle
        /\ SettingsIdle

SpecBatch == DriverInit /\ [][DriverNext]_vars

ListerInit ==
    ChunkerIdle /\ TranscriberIdle /\ LoaderIdle /\ PrepareIdle /\ StageIdle
        /\ DriverIdle /\ ListerStart
        /\ ConcurrentIdle
        /\ SettingsIdle

SpecLister == ListerInit /\ [][ListerNext]_vars

ConcurrentInit ==
    ChunkerIdle /\ TranscriberIdle /\ LoaderStart /\ PrepareIdle /\ StageIdle
        /\ DriverIdle /\ ListerIdle /\ ConcurrentStart
        /\ SettingsIdle

SpecConcurrent == ConcurrentInit /\ [][ConcurrentNext]_vars

(* main as a whole: the Source Lister, then the batches and the load loop *)
SpecPipeline == ListerInit /\ [][PipelineNext]_vars

SettingsInit ==
    ChunkerIdle /\ TranscriberIdle /\ LoaderIdle /\ PrepareIdle /\ StageIdle
        /\ DriverIdle /\ ListerIdle /\ ConcurrentIdle /\ SettingsStart

(* every step of the chunker is straight-line code of one call: once
   enabled it is taken; each of them moves the position or the loop *)
SpecSettings ==
    /\ SettingsInit
    /\ [][SettingsNext]_vars
    /\ WF_<<ck_pc, idx, start_ms>>(ChunkerUnderSettings)

-----------------------------------------------------------------------------
(* Window Chunker: properties *)

ValidWindow == chunk_length_ms > overlap_ms /\ overlap_ms >= 0

(* C1: for every total duration T >= 0 and every chunk_ms > overlap_ms >= 0,
   a call that returns has exported exactly ceil(T / (chunk_ms - overlap_ms))
   segments and returns exactly that many chunk_paths. *)
C1_SegmentCount ==
    (ck_pc = "returned" /\ ValidWindow) =>
        /\ Len(exports) = CeilDiv(total, chunk_length_ms - overlap_ms)
        /\ Len(chunk_paths) = CeilDiv(total, chunk_length_ms - overlap_ms)

C1_Witness ==
    /\ ck_pc = "returned"
    /\ ValidWindow
    /\ overlap_ms > 0
    /\ total % (chunk_length_ms - overlap_ms) # 0
    /\ Len(chunk_paths) >= 3

(* C2: for every T and every chunk_ms > overlap_ms >= 0, each emitted segment
   is at most chunk_ms long, every segment lies inside [0, T), every instant
   of [0, T) lies in some segment, and no gap separates two consecutive
   segments. *)
C2_CoverNoGaps ==
    (ck_pc = "returned" /\ ValidWindow) =>
        /\ \A k \in 1..Len(exports) :
              /\ exports[k].end_offset - exports[k].start_offset
                    <= chunk_length_ms
              /\ 0 <= exports[k].start_offset
              /\ exports[k].start_offset <= exports[k].end_offset
              /\ exports[k].end_offset <= total
        /\ \A t \in 0..(total - 1) :
              \E k \in 1..Len(exports) :
                  exports[k].start_offset <= t /\ t < exports[k].end_offset
        /\ \A k \in 1..(Len(exports) - 1) :
              exports[k + 1].start_offset <= exports[k].end_offset

C2_Witness ==
    /\ ck_pc = "returned"
    /\ ValidWindow
    /\ Len(exports) >= 2
    /\ exports[Len(exports)].end_offset - exports[Len(exports)].start_offset
          < chunk_length_ms
    /\ exports[Len(exports)].end_offset = total

(* C3: the segment with 0-based index k spans
   [k*step_ms, min(k*step_ms + chunk_ms, T)), is the k-th entry of chunk_paths
   and is stored under <item_id>_chunk_<k>.mp4; chunk_ms=4000, overlap_ms=1000,
   T=10000 yields exactly 4 segments with start offsets [0,3000,6000,9000] and
   end offsets [4000,7000,10000,10000]. *)
C3_SegmentIndexing ==
    /\ (ValidWindow /\ ck_pc \in {"chunking", "returned"}) =>
          /\ Len(chunk_paths) = Len(exports)
          /\ \A k \in 0..(Len(exports) - 1) :
                /\ exports[k + 1].start_offset
                      = k * (chunk_length_ms - overlap_ms)
                /\ exports[k + 1].end_offset
                      = Min(k * (chunk_length_ms - overlap_ms)
                              + chunk_length_ms, total)
                /\ chunk_paths[k + 1] = exports[k + 1].path
                /\ chunk_paths[k + 1].name
                      = <<video_id, "_chunk_", k, ".mp4">>
    /\ (/\ ck_pc = "returned"
        /\ chunk_length_ms = 4000
        /\ overlap_ms = 1000
        /\ total = 10000) =>
          /\ [k \in 1..Len(exports) |-> exports[k].start_offset]
                = <<0, 3000, 6000, 9000>>
          /\ [k \in 1..Len(exports) |-> exports[k].end_offset]
                = <<4000, 7000, 10000, 10000>>
          /\ Len(chunk_paths) = 4

C3_Witness ==
    /\ ck_pc = "returned"
    /\ chunk_length_ms = TestChunkMs
    /\ overlap_ms = TestOverlapMs
    /\ total = TestTotalMs
    /\ Len(chunk_paths) = 4

-----------------------------------------------------------------------------
(* Segment Transcriber: properties *)

AllExist == \A i \in 1..Len(tr_chunk_paths) : tr_chunk_paths[i] \in fs_exists

(* position of the first chunk path whose file is missing *)
FirstMissing ==
    CHOOSE i \in 1..Len(tr_chunk_paths) :
        /\ tr_chunk_paths[i] \notin fs_exists
        /\ \A j \in 1..(i - 1) : tr_chunk_paths[j] \in fs_exists

(* C4: for every list chunk_paths of existing segment files, a call that
   returns yields a transcripts list of the same length in which
   transcripts[i] is the text of chunk_paths[i] only (that segment's documents
   joined by single spaces); the parser is called exactly once per segment, in
   input order, with no reordering and no deduplication. *)
C4_TranscriptsMatchInput ==
    (tr_pc = "returned" /\ AllExist) =>
        /\ Len(tr_out) = Len(tr_chunk_paths)
        /\ Len(parse_calls) = Len(tr_chunk_paths)
        /\ \A i \in 1..Len(tr_chunk_paths) :
              /\ parse_calls[i].pos = i
              /\ parse_calls[i].ok
              /\ parse_calls[i].blob.path = tr_chunk_paths[i]
              /\ parse_calls[i].blob.metadata.chunk_filename
                    = tr_chunk_paths[i].name
              /\ tr_out[i] = JoinSpace(parse_calls[i].docs)
              /\ parse_calls[i].docs = <<"hola", "mundo">>
                    => tr_out[i] = "hola mundo"
              /\ parse_calls[i].docs = <<"mundo">> => tr_out[i] = "mundo"
              /\ parse_calls[i].docs = <<>> => tr_out[i] = ""

C4_Witness ==
    /\ tr_pc = "returned"
    /\ AllExist
    /\ Len(tr_chunk_paths) = 3
    /\ tr_chunk_paths[1] = tr_chunk_paths[3]
    /\ tr_chunk_paths[1] # tr_chunk_paths[2]
    /\ tr_out = <<"hola mundo", "mundo hola", "hola mundo">>

(* C5: if any segment file listed in chunk_paths does not exist, the call
   raises and returns no transcripts at all, and no segment positioned at or
   after the first missing one is sent to the speech-to-text parser. *)
C5_MissingFileFailsFast ==
    ~AllExist =>
        /\ tr_pc \in {"loop", "raised"}
        /\ tr_out = NoValue
        /\ tr_idx <= FirstMissing
        /\ \A c \in 1..Len(parse_calls) : parse_calls[c].pos < FirstMissing

C5_Witness ==
    /\ ~AllExist
    /\ tr_pc = "raised"
    /\ tr_out = NoValue
    /\ FirstMissing = 2
    /\ Len(tr_chunk_paths) = 3
    /\ tr_chunk_paths[3] \in fs_exists
    /\ Len(parse_calls) = 1
    /\ parse_calls[1].ok
    /\ Len(transcripts) = 1

-----------------------------------------------------------------------------
(* Graph Loader: properties *)

(* the RELACION edges between a node carrying id o and one carrying id d *)
EdgesBetween(o, d) ==
    {k \in 1..Len(edges) :
        /\ edges[k].type = "RELACION"
        /\ edges[k].src \in MatchById(nodes, o)
        /\ edges[k].dst \in MatchById(nodes, d)}

(* C6: for every valid Extraction Result and every prior graph state, running
   the loader on the same Extraction Result a second time in a row leaves the
   graph with the same number of nodes and of RELACION edges, and the same
   properties on them, as the first run left it. *)
C6_ReloadIdempotent ==
    (ld_pc = "done" /\ ld_rerun) =>
        /\ Len(nodes) = Len(ld_snap.nodes)
        /\ Len(edges) = Len(ld_snap.edges)
        /\ nodes = ld_snap.nodes
        /\ edges = ld_snap.edges

C6_Witness ==
    /\ ld_pc = "done"
    /\ ld_rerun
    /\ loads = 2
    /\ Len(nodes) >= 3
    /\ Len(edges) >= 2
    /\ Len(ld_input.relaciones.relaciones) = 2
    /\ Len(ld_input.entidades.personas) = 2

(* C7: loading a Relation whose source or target identifier matches no node
   creates no edge and raises no error: the graph is unchanged and the loader
   goes on with the statements that remain; a relation whose two endpoints
   exist is upserted as a RELACION edge between them carrying its id,
   description and strength. *)
C7_DanglingRelationSkipped ==
    [][(ld_pc = "loading" /\ ld_queue # <<>> /\ Head(ld_queue).kind = "rel") =>
        LET r == Head(ld_queue).params
        IN  IF MatchById(nodes, r.id_origen) = {}
               \/ MatchById(nodes, r.id_destino) = {}
            THEN /\ edges' = edges
                 /\ nodes' = nodes
                 /\ ld_pc' = "loading"
                 /\ ld_queue' = Tail(ld_queue)
            ELSE /\ nodes' = nodes
                 /\ ld_pc' = "loading"
                 /\ ld_queue' = Tail(ld_queue)
                 /\ \E k \in 1..Len(edges') :
                       /\ edges'[k].type = "RELACION"
                       /\ edges'[k].src \in MatchById(nodes, r.id_origen)
                       /\ edges'[k].dst \in MatchById(nodes, r.id_destino)
                       /\ edges'[k].props.id = r.id_relacion
                       /\ edges'[k].props.descripcion_relacion
                            = r.descripcion_relacion
                       /\ edges'[k].props.fuerza_relacion = r.fuerza_relacion
      ]_vars

C7_Witness ==
    /\ ld_pc = "done"
    /\ ~ld_rerun
    /\ loads = 1
    /\ ld_input.relaciones.relaciones
         = <<Relation("r2", "c", "b", "d2", 2),
             Relation("r1", "a", "b", "d1", 1)>>
    /\ MatchById(nodes, "c") = {}
    /\ Len(edges) = 1
    /\ edges[1].props.id = "r1"
    /\ edges[1].src \in MatchById(nodes, "a")
    /\ edges[1].dst \in MatchById(nodes, "b")

(* C8: upserting an entity whose identifier is already carried by a node
   creates no new node; consequently, after any sequence of loads, no two
   entity nodes in the graph carry the same identifier. *)
C8_NoTwoNodesShareId ==
    \A i, j \in 1..Len(nodes) :
        i # j => nodes[i].props.id # nodes[j].props.id

(* C9: a relation's identity in the graph is its own id: after a load whose
   fragment holds two Relations with different ids and the same existing
   source and target, there are two distinct RELACION edges between them, each
   carrying its own id, description and strength. *)
C9_RelationIdentityIsItsId ==
    ld_pc = "done" =>
        LET rs == ld_input.relaciones.relaciones
            Carried(r) ==
                {k \in EdgesBetween(r.entidad_origen.id, r.entidad_destino.id) :
                    /\ edges[k].props.id = r.id
                    /\ edges[k].props.descripcion_relacion
                         = r.descripcion_relacion
                    /\ edges[k].props.fuerza_relacion = r.fuerza_relacion}
        IN  \A i, j \in 1..Len(rs) :
               (/\ rs[i].id # rs[j].id
                /\ rs[i].entidad_origen.id = rs[j].entidad_origen.id
                /\ rs[i].entidad_destino.id = rs[j].entidad_destino.id
                /\ MatchById(nodes, rs[i].entidad_origen.id) # {}
                /\ MatchById(nodes, rs[i].entidad_destino.id) # {})
               => \E k1 \in Carried(rs[i]) : \E k2 \in Carried(rs[j]) : k1 # k2

(* C10: before any entity is upserted, the loader has ensured an
   id-uniqueness constraint for each of the five entity classes on the very
   node label under which the loader stores that class. *)
C10_ConstraintOnStoredLabel ==
    (ld_pc = "loading" /\ ld_queue # <<>> /\ Head(ld_queue).kind = "node") =>
        /\ Head(ld_queue).label \in constraints
        /\ \A i \in 1..Len(Variants) : StoreLabel(Variants[i]) \in constraints

(* the labels the loader stores the five entity classes under *)
StoreLabels == {StoreLabel(Variants[i]) : i \in 1..Len(Variants)}

(* the RELACION edges the relation statement with parameters p has bound,
   read in the graph <<ns, es>> the statement leaves *)
EdgesOfStatement(ns, es, p) ==
    {k \in 1..Len(es) :
        /\ es[k].type = "RELACION"
        /\ es[k].src \in MatchById(ns, p.id_origen)
        /\ es[k].dst \in MatchById(ns, p.id_destino)}

(* C30: loading one Relation whose source and target identifiers are both
   present creates or updates exactly one RELACION edge, and its endpoints are
   entity nodes carrying those identifiers: never a RelMaterializada node,
   never several edges because several nodes carry the same id. *)
C30_RelationBindsOneEdge ==
    [][(/\ ld_pc = "loading"
        /\ ld_queue # <<>>
        /\ ld_queue' = Tail(ld_queue)
        /\ Head(ld_queue).kind = "rel"
        /\ MatchById(nodes, Head(ld_queue).params.id_origen) # {}
        /\ MatchById(nodes, Head(ld_queue).params.id_destino) # {})
       => LET bound == EdgesOfStatement(nodes', edges',
                                        Head(ld_queue).params)
          IN  /\ Cardinality(bound) = 1
              /\ \A k \in bound :
                    /\ edges'[k].props.id = Head(ld_queue).params.id_relacion
                    /\ nodes'[edges'[k].src].labels \cap StoreLabels # {}
                    /\ nodes'[edges'[k].dst].labels \cap StoreLabels # {}
                    /\ "RelMaterializada" \notin nodes'[edges'[k].src].labels
                    /\ "RelMaterializada" \notin nodes'[edges'[k].dst].labels
      ]_vars

-----------------------------------------------------------------------------
(* Graph preparation: properties *)

(* C11: when generate_embeddings has run, every node carrying the common
   label Entity that has a text has an embedding, computed from that text and
   stored on that same node. *)
C11_EveryTextNodeEmbedded ==
    pg_pc \in {"create_index", "done", "embed_raised"} =>
        \A i \in 1..Len(nodes) :
            ("Entity" \in nodes[i].labels
             /\ Prop(nodes[i].props, "text") # Null)
            => Prop(nodes[i].props, "embedding")
                  = EmbedQuery(nodes[i].props.text)

(* the RelMaterializada nodes carrying the id of RELACION edge e *)
MaterializedOf(e) ==
    MatchByLabelAndId(nodes, "RelMaterializada", Prop(e.props, "id"))

(* the targets of the auxiliary edges of one type leaving node m *)
AuxTargets(m, type) ==
    {k \in 1..Len(edges) : edges[k].type = type /\ edges[k].src = m}

(* C24: after node text, edge text and materialization have run, every
   RELACION edge whose two endpoints carry a text has exactly one
   RelMaterializada node of its id, whose text combines the source text, the
   target text and the relation text, with exactly one FROM edge, to the
   source, and exactly one TO edge, to the target; running the three steps
   again adds no node and no auxiliary edge. *)
C24_OneMaterializedNodePerEdge ==
    pg_pc = "common_label" =>
        /\ \A k \in 1..Len(edges) :
              (/\ edges[k].type = "RELACION"
               /\ Prop(nodes[edges[k].src].props, "text") # Null
               /\ Prop(nodes[edges[k].dst].props, "text") # Null)
              => /\ Cardinality(MaterializedOf(edges[k])) = 1
                 /\ \A m \in MaterializedOf(edges[k]) :
                       /\ Prop(nodes[m].props, "text")
                            = MaterializedText(nodes[edges[k].src],
                                               nodes[edges[k].dst], edges[k])
                       /\ {edges[j].dst : j \in AuxTargets(m, "FROM")}
                            = {edges[k].src}
                       /\ Cardinality(AuxTargets(m, "FROM")) = 1
                       /\ {edges[j].dst : j \in AuxTargets(m, "TO")}
                            = {edges[k].dst}
                       /\ Cardinality(AuxTargets(m, "TO")) = 1
        /\ LET again == ConvertRelationshipsAsNodes(
                            BuildRepresentativeTextFromNodeProperties(nodes),
                            BuildRepresentativeTextForRelationships(edges))
           IN  /\ Len(again.nodes) = Len(nodes)
               /\ Len(again.edges) = Len(edges)

(* the RELACION edges whose endpoints carry a text *)
TextedRelations ==
    {k \in 1..Len(edges) :
        /\ edges[k].type = "RELACION"
        /\ Prop(nodes[edges[k].src].props, "text") # Null
        /\ Prop(nodes[edges[k].dst].props, "text") # Null}

(* C28: after loads each followed by the preparation steps, the
   RelMaterializada nodes correspond one-to-one to the current RELACION edges
   whose endpoints carry a text: no RelMaterializada node carries an id that
   is not the id of a RELACION edge now in the graph. *)
C28_NoStaleMaterializedNode ==
    pg_pc = "common_label" =>
        \A m \in 1..Len(nodes) :
            "RelMaterializada" \in nodes[m].labels
            => \E k \in TextedRelations :
                  Prop(edges[k].props, "id") = nodes[m].props.id

(* C29: when a sequence of loads and preparation runs ends with a
   preparation run, every node that has an embedding has the one computed
   from its current text, and a node whose attributes an upsert overwrote and
   whose text the run recomputed has had its embedding refreshed by the
   run's embedding step. *)
C29_EmbeddingFollowsCurrentText ==
    pg_pc \in {"create_index", "done", "embed_raised"} =>
        \A i \in 1..Len(nodes) :
            /\ Prop(nodes[i].props, "embedding") # Null
                 => nodes[i].props.embedding = EmbedQuery(nodes[i].props.text)
            /\ i \in pg_recomputed
                 => Prop(nodes[i].props, "embedding")
                       = EmbedQuery(nodes[i].props.text)

-----------------------------------------------------------------------------
(* Text stages: properties *)

(* the answers of the classifier that read castellano / valenciano once
   lower-cased and trimmed *)
RawCastellano ==
    {<<"c", "a", "s", "t", "e", "l", "l", "a", "n", "o">>,
     <<"C", "a", "s", "t", "e", "l", "l", "a", "n", "o">>,
     <<" ", "c", "a", "s", "t", "e", "l", "l", "a", "n", "o", "\n">>}

RawValenciano ==
    {<<"v", "a", "l", "e", "n", "c", "i", "a", "n", "o">>,
     <<"V", "A", "L", "E", "N", "C", "I", "A", "N", "O", " ">>}

(* the classifier has answered, and this is its answer *)
Detected ==
    \E i \in 1..Len(st_calls) : st_calls[i].chain = "detect" /\ st_calls[i].ok

DetectedLabel ==
    st_calls[CHOOSE i \in 1..Len(st_calls) :
                st_calls[i].chain = "detect" /\ st_calls[i].ok].content

TranslateInvoked ==
    \E i \in 1..Len(st_calls) : st_calls[i].chain = "translate"

(* C12: when the classifier's label is castellano, the Translator does not
   invoke the translation call; its final text, the text it writes and the
   spanish_text it returns are the input text, unchanged. *)
C12_CastellanoPassesThrough ==
    (st_stage = "translate" /\ Detected /\ DetectedLabel \in RawCastellano) =>
        /\ ~TranslateInvoked
        /\ st_pc \in {"branch", "save", "returned"}
        /\ st_pc \in {"save", "returned"} =>
              st_text = st_inputs["correference_resolution_text"]
        /\ \A i \in 1..Len(st_writes) :
              st_writes[i].content
                 = st_inputs["correference_resolution_text"]
        /\ st_pc = "returned" =>
              st_out["spanish_text"]
                 = st_inputs["correference_resolution_text"]

C12_Witness ==
    /\ st_stage = "translate"
    /\ st_pc = "returned"
    /\ Detected
    /\ DetectedLabel = <<" ", "c", "a", "s", "t", "e", "l", "l", "a", "n",
                         "o", "\n">>
    /\ st_inputs["correference_resolution_text"] = "hola"
    /\ st_out["spanish_text"] = "hola"
    /\ Len(st_calls) = 1
    /\ Len(st_writes) = 1

(* C13: when the classifier's label, lower-cased and trimmed, is neither
   castellano nor valenciano, the Translator raises: it returns nothing,
   never invokes the translation call and writes no file; once the call has
   ended, the translation call has been invoked if and only if the label was
   valenciano. *)
C13_UnsupportedLanguageRaises ==
    (st_stage = "translate" /\ Detected) =>
        /\ DetectedLabel \notin (RawCastellano \cup RawValenciano) =>
              /\ st_pc \in {"branch", "raised"}
              /\ ~TranslateInvoked
              /\ st_writes = <<>>
              /\ st_out = <<>>
        /\ st_pc \in {"save", "returned", "raised"} =>
              (TranslateInvoked <=> DetectedLabel \in RawValenciano)

C13_Witness ==
    /\ st_stage = "translate"
    /\ st_pc = "raised"
    /\ Detected
    /\ DetectedLabel = <<"c", "a", "s", "t", "e", "l", "l", "a", "n", "o",
                         ".">>
    /\ st_dir
    /\ st_writes = <<>>
    /\ ~TranslateInvoked

(* the input of the stage is missing or empty *)
EmptyInput ==
    IF st_stage = "unify"
    THEN "transcripts" \notin DOMAIN st_inputs
         \/ st_inputs["transcripts"] = <<>>
    ELSE InputField(st_stage) \notin DOMAIN st_inputs
         \/ st_inputs[InputField(st_stage)] \in {NoValue, ""}

(* C14: for the Transcript Unifier, the Corrector, the Coreference Resolver
   and the Translator, an empty or missing input (empty transcript list,
   empty or absent previous text field) makes the stage return the empty
   text for the item; no wrapped chain is invoked and nothing is raised. *)
C14_EmptyInputShortCircuits ==
    (st_stage \in {"unify", "correct", "coref", "translate"} /\ EmptyInput) =>
        /\ st_calls = <<>>
        /\ st_pc \in {"start", "returned"}
        /\ st_pc = "returned" =>
              /\ DOMAIN st_out = {"_video_id", OutputField(st_stage)}
              /\ st_out["_video_id"] = st_inputs["_video_id"]
              /\ st_out[OutputField(st_stage)] = ""

C14_Witness ==
    /\ st_stage = "coref"
    /\ st_pc = "returned"
    /\ "corrected_text" \in DOMAIN st_inputs
    /\ st_inputs["corrected_text"] = ""
    /\ st_meta.exists
    /\ st_calls = <<>>
    /\ st_out["correference_resolution_text"] = ""

(* C15: unifying a transcript list with exactly one element returns a unified
   text equal to that element's text. *)
C15_SingleTranscriptUnchanged ==
    (/\ st_stage = "unify"
     /\ st_pc = "returned"
     /\ Len(Get(st_inputs, "transcripts", <<>>)) = 1) =>
        st_out["unified_transcript"] = st_inputs["transcripts"][1]

(* C16: whenever the Structured Extractor returns for an item, whatever the
   input text (the empty one included), the record returned holds exactly
   _video_id and structured_output, and structured_output validates against
   OutputSchema. *)
C16_ExtractorRecordShape ==
    (st_stage = "extract" /\ st_pc = "returned") =>
        /\ DOMAIN st_out = {"_video_id", "structured_output"}
        /\ ModelValidate(JsonLoads(st_out["structured_output"])).ok

(* the language model's answer names no entity and no relation *)
ZeroEntities(j) ==
    /\ {"entidades", "relaciones"} \subseteq DOMAIN j
    /\ \A f \in ListFields : Get(j["entidades"], f, <<>>) = <<>>
    /\ Get(j["relaciones"], "relaciones", <<>>) = <<>>

(* the step is the load of an item whose Extraction Result is empty, run
   with a connection to the store *)
LoadsEmptyResult ==
    /\ dr_pc = "load"
    /\ dr_idx <= Len(dr_results)
    /\ JsonLoads(dr_results[dr_idx].out["structured_output"]) = EmptyResult
    /\ Len(dr_log') = Len(dr_log) + 1
    /\ dr_log'[Len(dr_log')].connected

(* C17: an extraction whose answer holds no entity yields an Extraction
   Result with five empty entity lists and an empty relation list; the result
   validates against the schema, and loading it over a connection to the
   store raises nothing and creates no node and no edge.  The log only grows,
   so the extraction is looked at as the newest entry of every state. *)
C17_EmptyExtractionLoadsNothing ==
    /\ [](\A k \in {Len(dr_log)} \ {0} :
            (/\ dr_log[k].stage = "extract"
             /\ dr_log[k].answered
             /\ ZeroEntities(dr_log[k].answer)) =>
                /\ dr_log[k].ok
                /\ JsonLoads(dr_log[k].out["structured_output"]) = EmptyResult
                /\ ModelValidate(
                      JsonLoads(dr_log[k].out["structured_output"])).ok)
    /\ [][LoadsEmptyResult =>
            /\ dr_pc' = "load"
            /\ dr_idx' = dr_idx + 1
            /\ nodes' = nodes
            /\ edges' = edges]_vars

C17_Witness ==
    /\ nodes = <<>>
    /\ edges = <<>>
    /\ \E k, l \in 1..Len(dr_log) :
          /\ dr_log[k].stage = "extract"
          /\ dr_log[k].answer = [entidades |-> <<>>, relaciones |-> <<>>]
          /\ dr_log[k].answered
          /\ dr_log[l].stage = "load"
          /\ dr_log[l].item = dr_log[k].item
          /\ dr_log[l].ok

(* the item never failed in any stage *)
NeverFailed(i) ==
    \A k \in 1..Len(dr_log) : dr_log[k].item = i => dr_log[k].ok

Loaded(i) ==
    \E k \in 1..Len(dr_log) :
        dr_log[k].stage = "load" /\ dr_log[k].item = i /\ dr_log[k].ok

(* C18: in a batch of several items the failure of one item in any stage
   aborts that item only: once the driver has ended, every item that did not
   fail itself has gone through all the stages and has been loaded. *)
C18_SiblingsStillLoaded ==
    dr_pc \in {"done", "raised"} =>
        \A i \in 1..Len(dr_urls) : NeverFailed(i) => Loaded(i)

(* the position of a stage in the pipeline, the load being the last *)
StageIndex(stage) ==
    IF stage = "load" THEN Len(StageOrder) + 1
    ELSE CHOOSE n \in 1..Len(StageOrder) : StageOrder[n] = stage

(* the entries item i left in the stage at position n, ahead of position
   before of the log *)
EntryOf(i, n, before) ==
    {k \in 1..(before - 1) :
        dr_log[k].item = i /\ StageIndex(dr_log[k].stage) = n}

(* C19: the driver runs chunk, transcribe, unify, correct, coref, translate,
   extract, load in that order; an item enters a stage only after every
   item of the batch has completed the stage before; and the text a stage
   receives is the output field of the stage before, for the same item, next
   to the item id and nothing else.  The log only grows, so each invocation
   is looked at as the newest entry of a state. *)
C19_StageSynchronousOrder ==
    \A l \in {Len(dr_log)} \ {0} :
        LET n == StageIndex(dr_log[l].stage)
        IN  /\ \A k \in 1..(l - 1) : StageIndex(dr_log[k].stage) <= n
            /\ n > 1 =>
                  \A i \in 1..Len(dr_urls) :
                      \E k \in EntryOf(i, n - 1, l) : dr_log[k].ok
            /\ (n > 1 /\ n <= Len(StageOrder)) =>
                  /\ DOMAIN dr_log[l].inputs =
                        {"_video_id", InputField(dr_log[l].stage)}
                  /\ \E k \in EntryOf(dr_log[l].item, n - 1, l) :
                        dr_log[l].inputs[InputField(dr_log[l].stage)] =
                            dr_log[k].out[OutputField(dr_log[k].stage)]

C19_Witness ==
    /\ dr_pc = "done"
    /\ Len(dr_urls) = MaxItems
    /\ \A i \in 1..Len(dr_urls) : Loaded(i)
    /\ \E l \in 1..Len(dr_log) :
          /\ dr_log[l].stage = "coref"
          /\ dr_log[l].item = 1
          /\ dr_log[l].inputs["corrected_text"] = "corrected"
          /\ \E k \in 1..(l - 1) :
                dr_log[k].stage = "correct" /\ dr_log[k].item = 2

(* the step is a load whose connection to the store was not established:
   no statement is left to issue *)
LoadWithoutConnection ==
    /\ ld_pc = "idle"
    /\ loads' = loads + 1
    /\ ld_queue' = <<>>

(* C20: when the connection to the graph store cannot be established the
   Graph Loader raises to its caller and writes nothing: the constraints, the
   nodes and the edges of the store are what they were. *)
C20_ConnectionFailureIsFatal ==
    [][LoadWithoutConnection =>
          /\ ld_pc' = "raised"
          /\ nodes' = nodes
          /\ edges' = edges
          /\ constraints' = constraints]_vars

C20_Witness ==
    /\ ld_pc = "raised"
    /\ loads = MaxLoads
    /\ nodes # <<>>
    /\ edges # <<>>

(* the metadata files of the videos whose details were fetched, in order *)
RECURSIVE SavedFiles(_, _)
SavedFiles(vs, outcomes) ==
    IF outcomes = <<>> THEN <<>>
    ELSE (IF Head(outcomes) = "saved" THEN <<MetadataFile(Head(vs))>>
          ELSE <<>>)
         \o SavedFiles(Tail(vs), Tail(outcomes))

(* C21: an HTTP error on the details of one video skips the metadata file of
   that video only: the function never raises because of it, it returns
   every video id of the playlist in playlist order, the failed one included,
   and metadata.json has been written for every video whose details came;
   an HTTP error on the listing raises, returns nothing and writes nothing. *)
C21_DetailErrorSkipsOneFile ==
    /\ pl_files = SavedFiles(videos, pl_outcomes)
    /\ (pl_pc = "raised" /\ pl_outcomes # <<>>) =>
          pl_outcomes[Len(pl_outcomes)] = "error"
    /\ (pl_pc = "raised" /\ pl_outcomes = <<>>) =>
          pl_files = <<>> /\ pl_result = <<>>
    /\ pl_pc = "returned" =>
          /\ pl_result = Flatten(pl_pages)
          /\ Len(pl_outcomes) = Len(pl_result)
          /\ \A i \in 1..Len(pl_outcomes) : pl_outcomes[i] # "error"

C21_Witness ==
    /\ pl_pc = "returned"
    /\ Len(pl_pages) = 2
    /\ pl_result = <<"a", "b", "a">>
    /\ pl_outcomes = <<"saved", "http_error", "saved">>

(* a graph up to the order in which its nodes and edges were created *)
Canonical(g) ==
    [count |-> <<Len(g.nodes), Len(g.edges)>>,
     nodes |-> {g.nodes[i] : i \in 1..Len(g.nodes)},
     edges |-> {[src |-> g.nodes[g.edges[k].src],
                 dst |-> g.nodes[g.edges[k].dst],
                 type |-> g.edges[k].type,
                 props |-> g.edges[k].props] : k \in 1..Len(g.edges)}]

(* the graph after the load of first and then the load of second, one after
   the other, on the empty store *)
Serial(first, second) ==
    ApplyStatements(
        ApplyStatements([nodes |-> <<>>, edges |-> <<>>, constraints |-> {}],
                        Statements(first)),
        Statements(second))

(* C22: when two Graph Loader runs execute at the same time without locking,
   whatever the interleaving of their statements the final graph is the
   graph of one of the two serial orders of the loads, and no two nodes carry
   the same label and the same id. *)
C22_ConcurrentLoadsSerializable ==
    cc_pc = "done" =>
        /\ Canonical([nodes |-> nodes, edges |-> edges])
              \in {Canonical(Serial(cc_inputs[1], cc_inputs[2])),
                   Canonical(Serial(cc_inputs[2], cc_inputs[1]))}
        /\ \A i, j \in 1..Len(nodes) :
              (i # j /\ nodes[i].labels \cap nodes[j].labels # {}) =>
                  nodes[i].props.id # nodes[j].props.id

(* C23: for the Transcript Unifier, the Corrector, the Coreference Resolver
   and the Translator, a stage that returns a non-empty text has written that
   very text to its own artifact file of the item before returning. *)
C23_OutputPersistedBeforeReturn ==
    (/\ st_stage \in {"unify", "correct", "coref", "translate"}
     /\ st_pc = "returned"
     /\ st_out[OutputField(st_stage)] # "") =>
        \E k \in 1..Len(st_writes) :
            /\ st_writes[k].path =
                  ArtifactPath(st_stage, st_inputs["_video_id"])
            /\ st_writes[k].content = st_out[OutputField(st_stage)]

(* C25: for a list of n >= 1 transcripts the Transcript Unifier invokes the
   merge n times in list order; the i-th invocation gets the result of the
   one before as unified_text (the empty text for the first) and the i-th
   transcript as chunk_text; the text returned is the result of the n-th
   invocation; a failing invocation fails the item and nothing is written. *)
C25_UnifierFoldsInOrder ==
    (st_stage = "unify" /\ Get(st_inputs, "transcripts", <<>>) # <<>>) =>
        LET ts == st_inputs["transcripts"]
            n  == Len(ts)
        IN  /\ Len(st_calls) <= n
            /\ \A i \in 1..Len(st_calls) :
                  /\ st_calls[i].args.chunk_text = ts[i]
                  /\ st_calls[i].args.unified_text =
                        (IF i = 1 THEN "" ELSE st_calls[i - 1].content)
                  /\ ~st_calls[i].ok =>
                        /\ i = Len(st_calls)
                        /\ st_pc = "raised"
            /\ st_pc = "raised" =>
                  /\ st_calls # <<>>
                  /\ ~st_calls[Len(st_calls)].ok
                  /\ st_writes = <<>>
                  /\ st_out = <<>>
            /\ st_pc = "returned" =>
                  /\ Len(st_calls) = n
                  /\ st_out["unified_transcript"] = st_calls[n].content

C25_Witness ==
    /\ st_stage = "unify"
    /\ st_pc = "returned"
    /\ Get(st_inputs, "transcripts", <<>>) = <<"hola", "adios">>
    /\ Len(st_calls) = 2
    /\ st_calls[1].content = "hola"
    /\ st_calls[2].args = [unified_text |-> "hola", chunk_text |-> "adios"]
    /\ st_out["unified_transcript"] = "adios"

(* C26: every configuration Settings accepts has
   0 <= OVERLAP_MS < CHUNK_LENGTH_MS; the chunker the driver builds from it
   has a step of 1 ms at least, every segment it exports is non-empty, and
   for every duration its segment loop comes to an end. *)
C26_AcceptedSettingsTerminate ==
    /\ [](se_pc \in {"accepted", "built"} =>
            /\ 0 <= env_overlap
            /\ env_overlap < env_chunk)
    /\ [](se_pc = "built" =>
            /\ chunk_length_ms = env_chunk
            /\ overlap_ms = env_overlap
            /\ Step(chunk_length_ms, overlap_ms) >= 1
            /\ \A k \in 1..Len(exports) :
                  exports[k].start_offset < exports[k].end_offset)
    /\ (ck_pc = "chunking" ~> ck_pc \in {"returned", "raised"})

C26_Witness ==
    /\ se_pc = "built"
    /\ ck_pc = "returned"
    /\ env_chunk = 1000
    /\ env_overlap = 700
    /\ total = 4500
    /\ Len(exports) = 15

-----------------------------------------------------------------------------
(* Pipeline: properties *)

(* the k-th id the Source Lister returned went into the chunk chain *)
Submitted(k) ==
    \E n \in 1..Len(dr_log) :
        /\ dr_log[n].stage = "chunk"
        /\ dr_log[n].item = k
        /\ dr_log[n].inputs["_video_id"] = pl_result[k]

(* C27: every item id the Source Lister returned for the playlist is
   submitted to the Window Chunker by the driver and, if none of its stages
   fails, is loaded into the graph by the time main ends. *)
C27_EveryListedItemProcessed ==
    (pl_pc = "returned" /\ dr_pc \in {"done", "raised"}) =>
        \A k \in 1..Len(pl_result) :
            /\ Submitted(k)
            /\ NeverFailed(k) => Loaded(k)

=============================================================================
